---- MODULE Spec2Model ----
(***************************************************************************)
(* Device registry (PIDiscovery), request forwarding (proxyToPi) and the   *)
(* HTTP routes of the ec2-proxy gateway, as a state machine.               *)
(*                                                                         *)
(* The JavaScript event loop runs one callback at a time; a callback runs  *)
(* from one await to the next without interruption.  Every action below is *)
(* one such run-to-completion segment.  Telemetry (middleware/monitoring)  *)
(* and the rate limiters keep no state the registry reads and are left out.*)
(***************************************************************************)
EXTENDS Integers, Sequences, FiniteSets, TLC

\* ---------------------------------------------------------------- bounds
MaxTime == 1
MaxCalls == 1
MaxSweeps == 1
MaxWrites == 2
MaxPis == 3
MaxStarts == 2

\* ------------------------------------------------------- values of fields
\* A JavaScript property that is absent or undefined: the text "undefined"
\* where the property holds text, Absent where it holds a number.
Undefined == "undefined"
Absent == 0 - 1

\* Addresses are dotted quads, kept as their four octets.
IP1 == <<100, 104, 127, 38>>
IP2 == <<100, 114, 175, 61>>
\* An address outside the candidate list (a device an admin registers).
IP3 == <<100, 64, 0, 7>>
IPs == {IP1, IP2, IP3}
\* No address (an ip that is absent or not bound yet).
NoIp == <<>>

\* const potentialIPs = [...] in discoverPis
potentialIPs == <<IP1, IP2>>

\* The port the devices' API listens on (the health probe's URL).
PI_API_PORT == "5000"

\* ip.replace(/\./g, '-')
ReplaceDots(ip) ==
    ToString(ip[1]) \o "-" \o ToString(ip[2]) \o "-" \o ToString(ip[3])
        \o "-" \o ToString(ip[4])

\* `pi-${ip.replace(/\./g, '-')}`
DerivedId(ip) == "pi-" \o ReplaceDots(ip)

\* `Music Player ${this.pis.size + 1}`
DefaultName(size) == "Music Player " \o ToString(size + 1)

\* a || b for text: b when a is undefined or ''
OrElse(a, b) == IF a \in {Undefined, ""} THEN b ELSE a

\* a || 0 for a number
OrZero(a) == IF a = Absent THEN 0 ELSE a

\* ------------------------------------------------------------ the JS Map
\* this.pis: a Map from id to record, iterated in insertion order.  It is a
\* sequence of records with pairwise different id fields.
Keys(m) == {m[i].id : i \in 1..Len(m)}

MapHas(m, id) == id \in Keys(m)

IndexOf(m, id) == CHOOSE i \in 1..Len(m) : m[i].id = id

\* Map.prototype.get, for a key the map has
MapGet(m, id) == m[IndexOf(m, id)]

\* Map.prototype.set: an existing key keeps its place, a new key goes last
MapSet(m, rec) ==
    IF MapHas(m, rec.id)
    THEN [m EXCEPT ![IndexOf(m, rec.id)] = rec]
    ELSE Append(m, rec)

\* Map.prototype.delete
MapDelete(m, id) ==
    IF MapHas(m, id)
    THEN LET k == IndexOf(m, id)
         IN  SubSeq(m, 1, k - 1) \o SubSeq(m, k + 1, Len(m))
    ELSE m

\* Array.from(this.pis.values()).find(pi => pi.ip === ip)
\* (the first record with that address; HasIp says whether there is one)
HasIp(m, ip) == \E i \in 1..Len(m) : m[i].ip = ip

FindByIp(m, ip) ==
    m[CHOOSE i \in 1..Len(m) : m[i].ip = ip /\ \A j \in 1..(i - 1) : m[j].ip # ip]

\* ------------------------------------------------------------ the devices
\* What the device at an address does with a request to its API port.
\*   "ok"        answers 2xx; its health body says success: true
\*   "nosuccess" answers 2xx; its health body carries no success flag
\*   "http500"   answers every request with status 500 and an error body
\*   "down"      does not answer (connection refused or timeout)
Modes == {"ok", "nosuccess", "http500", "down"}

\* The metadata a device reports about itself on /api/health.  The device at
\* IP2 reports none, so the gateway's defaults apply.
Hostname(ip) == IF ip = IP1 THEN "lounge-pi" ELSE IF ip = IP3 THEN "pool-pi" ELSE Undefined
Version(ip) == IF ip = IP2 THEN Undefined ELSE "1.2"
Uptime(ip) == IF ip = IP2 THEN Absent ELSE 7

HealthPath == "/api/health"

\* The body a device sends for a path other than its health path: text
\* that names the device and the path, so that bodies can be told apart.
Body(what, ip, path) == what \o " " \o path \o " at " \o ReplaceDots(ip)

\* The HTTP response of a device that answers: status and body.
DeviceResponse(mode, ip, path) ==
    IF mode = "http500"
    THEN [status |-> 500, data |-> Body("error", ip, path)]
    ELSE IF path = HealthPath
    THEN [status |-> 200,
          data |-> [success |-> (mode = "ok"), hostname |-> Hostname(ip),
                    version |-> Version(ip), storage |-> Undefined,
                    uptime |-> Uptime(ip)]]
    ELSE [status |-> 200, data |-> Body("playing", ip, path)]

\* (a validateStatus that resolves the promise for every status)
ValidateStatusAny(status) == status >= 200

\* axios's default validateStatus: only a 2xx status resolves the promise.
ValidateStatus(status) == status >= 200 /\ status < 300

\* The settled promise of axios for a request to http://ip:port/path, given
\* what the device at ip does.  A URL whose port is not the device's API
\* port (the text "undefined" included) never reaches the device's API.
Axios(mode, ip, port, path) ==
    IF port # PI_API_PORT
    THEN [ok |-> FALSE, message |-> "connect ECONNREFUSED", hasResponse |-> FALSE]
    ELSE IF mode = "down"
    THEN [ok |-> FALSE, message |-> "timeout exceeded", hasResponse |-> FALSE]
    ELSE LET r == DeviceResponse(mode, ip, path)
         IN  IF ValidateStatus(r.status)
             THEN [ok |-> TRUE, data |-> r.data]
             ELSE [ok |-> FALSE, message |-> "Request failed with status code 500",
                   hasResponse |-> TRUE, response |-> r]

\* ------------------------------------------------------------ persistence
\* Property order of a JavaScript object: keys that are array indices come
\* first, in ascending order, then the other keys in insertion order.
IsIndexKey(id) == \E n \in 0..(MaxPis + Len(potentialIPs)) : ToString(n) = id

RECURSIVE SortedIndexEntries(_, _)
SortedIndexEntries(m, n) ==
    IF n > MaxPis + Len(potentialIPs) THEN <<>>
    ELSE (IF MapHas(m, ToString(n)) THEN <<MapGet(m, ToString(n))>> ELSE <<>>)
             \o SortedIndexEntries(m, n + 1)

\* Object.fromEntries(this.pis)
ObjectFromEntries(m) ==
    SortedIndexEntries(m, 0) \o SelectSeq(m, LAMBDA r : ~IsIndexKey(r.id))

\* (a serialisation that writes every lastSeen as the epoch)
StringifyNoTimes(m, t) ==
    [state |-> "json",
     pis |-> [k \in 1..Len(m) |-> [ObjectFromEntries(m)[k] EXCEPT !.lastSeen = 0]],
     lastUpdated |-> t]

\* JSON.stringify({pis: Object.fromEntries(this.pis), lastUpdated: ...})
Stringify(m, t) == [state |-> "json", pis |-> ObjectFromEntries(m), lastUpdated |-> t]

\* The file is missing, holds text that is no JSON, or holds a snapshot.
MissingFile == [state |-> "missing", pis |-> <<>>, lastUpdated |-> 0]
MalformedFile == [state |-> "malformed", pis |-> <<>>, lastUpdated |-> 0]

\* What readFile + JSON.parse + new Map(Object.entries(config.pis || {}))
\* make of the file: a missing or malformed file throws.
FileThrows(file) == file.state \in {"missing", "malformed"}

\* (a load that falls back to a built-in list when the file cannot be read)
ParseFileFallsBack(file) ==
    IF FileThrows(file)
    THEN <<[id |-> "pi1", ip |-> IP1, port |-> PI_API_PORT, name |-> "Music Player 1",
            location |-> "Lobby", description |-> "", status |-> "offline",
            addedAt |-> 0, lastSeen |-> 0, version |-> Undefined,
            storage |-> Undefined, uptime |-> Absent]>>
    ELSE file.pis

ParseFile(file) == IF FileThrows(file) THEN <<>> ELSE file.pis

\* A record of the store.  Fields a record lacks are Undefined or Absent.
Record(id, ip, port, name, loc, desc, status, added, seen, ver, stor, up) ==
    [id |-> id, ip |-> ip, port |-> port, name |-> name, location |-> loc,
     description |-> desc, status |-> status, addedAt |-> added,
     lastSeen |-> seen, version |-> ver, storage |-> stor, uptime |-> up]

\* A snapshot written by an earlier deployment: one device at a candidate
\* address under an id of its own, with its API port recorded.
SeedSnapshot ==
    [state |-> "json",
     pis |-> <<Record("pi1", IP1, PI_API_PORT, "Music Player 1", "Lobby", "",
                      "offline", 0, 0, Undefined, Undefined, Absent)>>,
     lastUpdated |-> 0]

InitialFiles == {MissingFile, MalformedFile, SeedSnapshot}

\* ------------------------------------------------------------------ state
VARIABLES
    pis,          \* PIDiscovery.pis, the in-memory store
    now,          \* the wall clock read by new Date() and Date.now()
    net,          \* what the device at each address currently does
    disk,         \* the content of pis.json
    loadPending,  \* the constructor's loadPIs() has not settled yet
    writes,       \* fs.writeFile calls in flight, with who awaits each
    calls,        \* axios calls of proxyToPi in flight
    sweeps,       \* discoverPis() invocations in progress, by slot
    bulk,         \* the GET /api/all/status handler awaiting Promise.all
    ret,          \* how the last directly invoked operation ended
    resp,         \* the last HTTP response sent
    checks,       \* healthCheck() invocations in progress, by slot
    unhandled,    \* a promise nobody awaits has rejected
    timers,       \* the setInterval timers that are armed
    discoveryInterval,  \* this.discoveryInterval (0 while undefined)
    healthInterval,     \* this.healthInterval (0 while undefined)
    starts,       \* how often startAutoDiscovery has run
    users,        \* the users Map of middleware/auth, in insertion order
    accessRequests  \* the accessRequests Map of middleware/auth

\* The state of the timers of startAutoDiscovery.
auto == <<timers, discoveryInterval, healthInterval, starts>>

\* The two Maps of middleware/auth.
accounts == <<users, accessRequests>>

vars == <<pis, now, net, disk, loadPending, writes, calls, sweeps, bulk, ret, resp,
          checks, unhandled, auto, accounts>>

Idle == [pc |-> "idle"]
None == [kind |-> "none"]

\* null, as organization || null yields it
Null == "null"

\* An entry of the users Map: the key it is stored under and the fields of
\* the user; password and approvedAt are Undefined and Absent for a user
\* object that has none.
User(key, id, email, name, role, password, approvedAt, org, phone) ==
    [key |-> key, id |-> id, email |-> email, name |-> name, role |-> role,
     password |-> password, approvedAt |-> approvedAt, organization |-> org,
     phone |-> phone]

\* The default admin the module stores under the key 'admin' when loaded.
DefaultAdmin ==
    User("admin", "admin-1", "admin@resort.com", "System Administrator", "admin",
         "admin123", 0, Undefined, Undefined)

\* constructor: an empty Map, and loadPIs() started but not awaited; the
\* auth module holds its default admin and no access request.
Init ==
    /\ pis = <<>>
    /\ now = 0
    /\ net \in [IPs -> Modes]
    /\ disk \in InitialFiles
    /\ loadPending = TRUE
    /\ writes = <<>>
    /\ calls = <<>>
    /\ sweeps = [s \in 1..MaxSweeps |-> Idle]
    /\ bulk = Idle
    /\ ret = None
    /\ resp = None
    /\ checks = [h \in 1..MaxSweeps |-> Idle]
    /\ unhandled = FALSE
    /\ timers = {}
    /\ discoveryInterval = 0
    /\ healthInterval = 0
    /\ starts = 0
    /\ users = <<DefaultAdmin>>
    /\ accessRequests = <<>>

\* -------------------------------------------------------- the environment
Tick ==
    /\ now < MaxTime
    /\ now' = now + 1
    /\ UNCHANGED <<pis, net, disk, loadPending, writes, calls, sweeps, bulk, ret, resp,
                 checks, unhandled, auto, accounts>>

\* A device changes what it does (goes down, comes back, starts failing).
NetChange(ip, mode) ==
    /\ net[ip] # mode
    /\ net' = [net EXCEPT ![ip] = mode]
    /\ UNCHANGED <<pis, now, disk, loadPending, writes, calls, sweeps, bulk, ret, resp,
                 checks, unhandled, auto, accounts>>

\* ------------------------------------------------ iterators over the Map
\* The loops of healthCheck that are under way when this.pis is replaced by
\* a new Map go on over the old Map m.
Detached(cs, m) ==
    [h \in DOMAIN cs |->
        IF cs[h].pc # "idle" /\ ~cs[h].detached
        THEN [cs[h] EXCEPT !.detached = TRUE, !.entries = m]
        ELSE cs[h]]

\* The loops of healthCheck after the entry at index k of this.pis has been
\* deleted: a loop that is at or past that entry has one entry less behind
\* it.
AfterDelete(cs, k) ==
    [h \in DOMAIN cs |->
        IF cs[h].pc # "idle" /\ ~cs[h].detached /\ k <= cs[h].i
        THEN [cs[h] EXCEPT !.i = @ - 1]
        ELSE cs[h]]

\* ------------------------------------------------------ loadPIs / savePIs
\* loadPIs settles: this.pis is replaced by the file's devices, or by an
\* empty Map when reading or parsing threw.
LoadPIs ==
    /\ loadPending
    /\ loadPending' = FALSE
    /\ pis' = ParseFile(disk)
    /\ checks' = Detached(checks, pis)
    /\ UNCHANGED <<now, net, disk, writes, calls, sweeps, bulk, ret, resp, unhandled, auto, accounts>>

\* savePIs up to its await: the text is built from the store as it is now
\* and handed to fs.writeFile.  waiter names the caller that awaits it.
CanSave == Len(writes) < MaxWrites

SavePIs(m, waiter) == Append(writes, [content |-> Stringify(m, now), waiter |-> waiter])

RemoveAt(q, i) == SubSeq(q, 1, i - 1) \o SubSeq(q, i + 1, Len(q))

Waiter(kind, slot, id) == [kind |-> kind, slot |-> slot, id |-> id]

\* -------------------------------------------- registerPI / removePI / status
\* What callers pass to registerPI: an address, and optionally an id, a
\* name, a location and a description.
RegisterInputs ==
    { [id |-> Undefined, ip |-> IP3, name |-> "Pool", location |-> "Patio",
       description |-> "by the pool"],
      [id |-> Undefined, ip |-> IP1, name |-> "Lounge", location |-> "Lobby",
       description |-> "main hall"],
      [id |-> "kitchen", ip |-> IP1, name |-> Undefined, location |-> Undefined,
       description |-> Undefined],
      [id |-> "0", ip |-> IP3, name |-> "Zero", location |-> Undefined,
       description |-> Undefined] }

\* The record registerPI builds.
RegisteredPi(piData, size, t) ==
    Record(OrElse(piData.id, DerivedId(piData.ip)), piData.ip, Undefined,
           OrElse(piData.name, DefaultName(size)),
           OrElse(piData.location, "Unknown"), OrElse(piData.description, ""),
           "pending", t, t, Undefined, Undefined, Absent)

\* registerPI up to its await of savePIs
RegisterPI(piData) ==
    LET pi == RegisteredPi(piData, Len(pis), now)
        m == MapSet(pis, pi)
    IN  /\ CanSave
        /\ Len(m) <= MaxPis
        /\ pis' = m
        /\ writes' = SavePIs(m, Waiter("registerPI", 0, pi.id))
        /\ UNCHANGED <<now, net, disk, loadPending, calls, sweeps, bulk, ret, resp,
                 checks, unhandled, auto, accounts>>

\* (a removePI that writes the snapshot for an unknown id as well)
RemovePISavesAlways(piId) ==
    IF MapHas(pis, piId)
    THEN /\ CanSave
         /\ pis' = MapDelete(pis, piId)
         /\ writes' = SavePIs(MapDelete(pis, piId), Waiter("removePI", 0, piId))
         /\ checks' = AfterDelete(checks, IndexOf(pis, piId))
         /\ UNCHANGED <<now, net, disk, loadPending, calls, sweeps, bulk, ret, resp,
                        unhandled, auto, accounts>>
    ELSE /\ CanSave
         /\ writes' = SavePIs(pis, Waiter("none", 0, piId))
         /\ ret' = [kind |-> "return", op |-> "removePI", piId |-> piId, value |-> FALSE]
         /\ UNCHANGED <<pis, now, net, disk, loadPending, calls, sweeps, bulk, resp,
                        checks, unhandled, auto, accounts>>

\* removePI: false at once for an unknown id, else delete and await savePIs
RemovePI(piId) ==
    IF MapHas(pis, piId)
    THEN /\ CanSave
         /\ pis' = MapDelete(pis, piId)
         /\ writes' = SavePIs(MapDelete(pis, piId), Waiter("removePI", 0, piId))
         /\ checks' = AfterDelete(checks, IndexOf(pis, piId))
         /\ UNCHANGED <<now, net, disk, loadPending, calls, sweeps, bulk, ret, resp,
                        unhandled, auto, accounts>>
    ELSE /\ ret' = [kind |-> "return", op |-> "removePI", piId |-> piId, value |-> FALSE]
         /\ UNCHANGED <<pis, now, net, disk, loadPending, writes, calls, sweeps, bulk, resp,
                 checks, unhandled, auto, accounts>>

\* The statuses callers of updatePIStatus write.
Statuses == {"online", "offline"}

\* (an update that writes the status and leaves lastSeen as it was)
UpdatePIStatusKeepsSeen(m, piId, status, t) ==
    IF MapHas(m, piId)
    THEN MapSet(m, [MapGet(m, piId) EXCEPT !.status = status])
    ELSE m

\* (an update that writes the status to every record of the store)
UpdatePIStatusEvery(m, piId, status, t) ==
    IF MapHas(m, piId)
    THEN [k \in 1..Len(m) |->
             IF m[k].id = piId
             THEN [m[k] EXCEPT !.status = status, !.lastSeen = t]
             ELSE [m[k] EXCEPT !.status = status]]
    ELSE m

\* (an update that creates the record of an id the store does not hold)
UpdatePIStatusPutsBack(m, piId, status, t) ==
    IF MapHas(m, piId)
    THEN MapSet(m, [MapGet(m, piId) EXCEPT !.status = status, !.lastSeen = t])
    ELSE MapSet(m, Record(piId, Undefined, Undefined, Undefined, Undefined, Undefined,
                          status, Absent, t, Undefined, Undefined, Absent))

\* The store after the synchronous part of updatePIStatus(piId, status).
UpdatePIStatus(m, piId, status, t) ==
    IF MapHas(m, piId)
    THEN MapSet(m, [MapGet(m, piId) EXCEPT !.status = status, !.lastSeen = t])
    ELSE m

\* updatePIStatus called directly: null at once for an unknown id, else the
\* record is written and savePIs awaited.
SetPIStatus(piId, status) ==
    IF MapHas(pis, piId)
    THEN /\ CanSave
         /\ pis' = UpdatePIStatus(pis, piId, status, now)
         /\ writes' = SavePIs(UpdatePIStatus(pis, piId, status, now),
                              Waiter("updatePIStatus", 0, piId))
         /\ UNCHANGED <<now, net, disk, loadPending, calls, sweeps, bulk, ret, resp,
                        checks, unhandled, auto, accounts>>
    ELSE /\ ret' = [kind |-> "return", op |-> "updatePIStatus", piId |-> piId,
                    value |-> "null"]
         /\ UNCHANGED <<pis, now, net, disk, loadPending, writes, calls, sweeps, bulk,
                        resp, checks, unhandled, auto, accounts>>

\* ------------------------------------------------------------ discoverPis
\* (an id numbered by the size of the store instead of derived from the
\* address)
PiInfoNumbered(ip, data, size, t) ==
    Record("pi-" \o ToString(size + 1), ip, Undefined,
           OrElse(data.hostname, DefaultName(size)),
           Undefined, Undefined, "online", Absent, t,
           OrElse(data.version, "unknown"), OrElse(data.storage, "{}"),
           OrZero(data.uptime))

\* The record discoverPis builds from a health response.
PiInfo(ip, data, size, t) ==
    Record(DerivedId(ip), ip, Undefined, OrElse(data.hostname, DefaultName(size)),
           Undefined, Undefined, "online", Absent, t,
           OrElse(data.version, "unknown"), OrElse(data.storage, "{}"),
           OrZero(data.uptime))

\* (a catch branch that also records an address it knows no device for)
ProbeFailedRecords(m, ip, t) ==
    IF HasIp(m, ip)
    THEN IF FindByIp(m, ip).status = "online"
         THEN MapSet(m, [FindByIp(m, ip) EXCEPT !.status = "offline", !.lastSeen = t])
         ELSE m
    ELSE MapSet(m, Record(DerivedId(ip), ip, Undefined, DefaultName(Len(m)), Undefined,
                          Undefined, "offline", Absent, t, Undefined, Undefined, Absent))

\* The catch branch: a known device at that address that was online goes
\* offline.
ProbeFailed(m, ip, t) ==
    IF HasIp(m, ip) /\ FindByIp(m, ip).status = "online"
    THEN MapSet(m, [FindByIp(m, ip) EXCEPT !.status = "offline", !.lastSeen = t])
    ELSE m

\* The store after the response to the probe of ip has been handled.
AfterProbe(m, ip, r, t) ==
    IF r.ok
    THEN IF r.data.success THEN MapSet(m, PiInfo(ip, r.data, Len(m), t)) ELSE m
    ELSE ProbeFailed(m, ip, t)

\* What the caller of discoverPis gets when the sweep returns: a direct
\* caller the list, the POST /api/admin/discover handler its response, and
\* a timer callback, which awaits nothing, nothing.
DiscoverResponse(discovered) ==
    [status |-> 200,
     body |-> [success |-> TRUE, discovered |-> Len(discovered), pis |-> discovered]]

SweepReturns(owner, discovered) ==
    IF owner = "admin"
    THEN resp' = DiscoverResponse(discovered) /\ UNCHANGED ret
    ELSE IF owner = "direct"
    THEN /\ ret' = [kind |-> "return", op |-> "discoverPis", discovered |-> discovered]
         /\ UNCHANGED resp
    ELSE UNCHANGED <<ret, resp>>

\* discoverPis is called: the sweep starts with the probe of the first
\* candidate address.
StartSweep(s, owner) ==
    /\ sweeps[s].pc = "idle"
    /\ sweeps' = [sweeps EXCEPT ![s] = [pc |-> "probe", i |-> 1, discovered |-> <<>>,
                                       owner |-> owner]]
    /\ UNCHANGED <<pis, now, net, disk, loadPending, writes, calls, bulk, ret, resp,
                 checks, unhandled, auto, accounts>>

DiscoverPis(s) == StartSweep(s, "direct")

\* The probe of candidate i settles; the loop goes on to the next candidate
\* or, after the last one, saves (if anything was discovered) and returns.
DiscoverProbe(s) ==
    /\ sweeps[s].pc = "probe"
    /\ LET sw == sweeps[s]
           ip == potentialIPs[sw.i]
           r == Axios(net[ip], ip, PI_API_PORT, HealthPath)
           m == AfterProbe(pis, ip, r, now)
           found == r.ok /\ r.data.success
           discovered == IF found
                         THEN Append(sw.discovered, PiInfo(ip, r.data, Len(pis), now))
                         ELSE sw.discovered
       IN  /\ pis' = m
           /\ IF sw.i < Len(potentialIPs)
              THEN /\ sweeps' = [sweeps EXCEPT ![s] = [sw EXCEPT !.i = sw.i + 1,
                                                       !.discovered = discovered]]
                   /\ UNCHANGED <<writes, ret, resp>>
              ELSE IF Len(discovered) > 0
              THEN /\ CanSave
                   /\ writes' = SavePIs(m, Waiter("discoverPis", s, Undefined))
                   /\ sweeps' = [sweeps EXCEPT ![s] = [sw EXCEPT !.pc = "save",
                                                       !.discovered = discovered]]
                   /\ UNCHANGED <<ret, resp>>
              ELSE /\ sweeps' = [sweeps EXCEPT ![s] = Idle]
                   /\ SweepReturns(sw.owner, discovered)
                   /\ UNCHANGED writes
    /\ UNCHANGED <<now, net, disk, loadPending, calls, bulk,
                 checks, unhandled, auto, accounts>>

\* ------------------------------------------------------------ healthCheck
\* for (const [piId, pi] of this.pis): the iterator of the Map the loop was
\* started on.  A check keeps the index i of the entry it is working on; the
\* Map is iterated live, so entries appended meanwhile are visited and an
\* entry deleted at or before i moves the index down.  When loadPIs replaces
\* this.pis, the loop goes on over the Map it started on (entries), which
\* nothing changes any more.
Iterated(c, m) == IF c.detached THEN c.entries ELSE m

\* The check at the entry k of the Map it iterates: piId and pi are bound,
\* and the probe of pi.ip is issued.
AtEntry(c, m, k) ==
    [c EXCEPT !.pc = "probe", !.i = k, !.piId = Iterated(c, m)[k].id,
              !.ip = Iterated(c, m)[k].ip, !.name = Iterated(c, m)[k].name]

\* What the caller of healthCheck gets when it returns; a timer callback
\* awaits nothing.
CheckReturns(owner, results) ==
    IF owner = "direct"
    THEN ret' = [kind |-> "return", op |-> "healthCheck", results |-> results]
    ELSE UNCHANGED ret

\* (a loop that never returns once it is past its last entry)
CheckGoesOnHangs(h, c, m) ==
    IF c.i < Len(Iterated(c, m))
    THEN checks' = [checks EXCEPT ![h] = AtEntry(c, m, c.i + 1)] /\ UNCHANGED ret
    ELSE checks' = [checks EXCEPT ![h] = [c EXCEPT !.pc = "hang"]] /\ UNCHANGED ret

\* The loop is done with its entry: on to the next one, or return.
CheckGoesOn(h, c, m) ==
    IF c.i < Len(Iterated(c, m))
    THEN checks' = [checks EXCEPT ![h] = AtEntry(c, m, c.i + 1)] /\ UNCHANGED ret
    ELSE checks' = [checks EXCEPT ![h] = Idle] /\ CheckReturns(c.owner, c.results)

\* healthCheck is called: with an empty store it returns an empty list,
\* otherwise it issues the probe of the first device.
StartCheck(h, owner) ==
    /\ checks[h].pc = "idle"
    /\ LET c == [pc |-> "probe", i |-> 0, piId |-> Undefined, ip |-> NoIp,
                 name |-> Undefined, results |-> <<>>, owner |-> owner,
                 branch |-> "try", detached |-> FALSE, entries |-> <<>>]
       IN  CheckGoesOn(h, c, pis)
    /\ UNCHANGED <<pis, now, net, disk, loadPending, writes, calls, sweeps, bulk, resp,
                   unhandled, auto, accounts>>

HealthCheck(h) == StartCheck(h, "direct")

\* The entries healthCheck pushes to results.
OnlineResult(c, data, t) ==
    [piId |-> c.piId, ip |-> c.ip, name |-> c.name, status |-> "online",
     response |-> data, checkTime |-> t]

OfflineResult(c, message, t) ==
    [piId |-> c.piId, ip |-> c.ip, name |-> c.name, status |-> "offline",
     error |-> message, checkTime |-> t]

\* (a check that sets every device it probed online)
CheckStatusOnline(r) == "online"

\* The status healthCheck passes to updatePIStatus: 'online' from the try
\* block, 'offline' from the catch block.
CheckStatus(r) == IF r.ok THEN "online" ELSE "offline"

\* The probe of a check settles: the result is pushed, and updatePIStatus
\* runs up to its await of savePIs, or returns null for an id the store
\* does not hold, and then the loop goes on.
CheckProbe(h) ==
    /\ checks[h].pc = "probe"
    /\ LET c == checks[h]
           r == Axios(net[c.ip], c.ip, PI_API_PORT, HealthPath)
           result == IF r.ok THEN OnlineResult(c, r.data, now)
                     ELSE OfflineResult(c, r.message, now)
           status == CheckStatus(r)
           c2 == [c EXCEPT !.results = Append(c.results, result),
                           !.branch = IF r.ok THEN "try" ELSE "catch"]
       IN  IF MapHas(pis, c.piId)
           THEN /\ CanSave
                /\ pis' = UpdatePIStatus(pis, c.piId, status, now)
                /\ writes' = SavePIs(UpdatePIStatus(pis, c.piId, status, now),
                                     Waiter("healthCheck", h, c.piId))
                /\ checks' = [checks EXCEPT ![h] = [c2 EXCEPT !.pc = "save"]]
                /\ UNCHANGED ret
           ELSE /\ CheckGoesOn(h, c2, pis)
                /\ UNCHANGED <<pis, writes>>
    /\ UNCHANGED <<now, net, disk, loadPending, calls, sweeps, bulk, resp, unhandled, auto, accounts>>

\* ------------------------------------------------------------- writeFile
\* A write reaches the file; the caller awaiting it resumes and returns.
WriteDone(i) ==
    /\ i \in 1..Len(writes)
    /\ LET w == writes[i].waiter
       IN  /\ disk' = writes[i].content
           /\ writes' = RemoveAt(writes, i)
           /\ CASE w.kind = "registerPI" ->
                    /\ ret' = [kind |-> "return", op |-> "registerPI", piId |-> w.id]
                    /\ UNCHANGED <<resp, sweeps, checks>>
                [] w.kind = "removePI" ->
                    /\ ret' = [kind |-> "return", op |-> "removePI", piId |-> w.id,
                               value |-> TRUE]
                    /\ UNCHANGED <<resp, sweeps, checks>>
                [] w.kind = "updatePIStatus" ->
                    /\ ret' = [kind |-> "return", op |-> "updatePIStatus", piId |-> w.id,
                               value |-> "pi"]
                    /\ UNCHANGED <<resp, sweeps, checks>>
                [] w.kind = "discoverPis" ->
                    /\ sweeps' = [sweeps EXCEPT ![w.slot] = Idle]
                    /\ SweepReturns(sweeps[w.slot].owner, sweeps[w.slot].discovered)
                    /\ UNCHANGED checks
                [] w.kind = "healthCheck" ->
                    /\ CheckGoesOn(w.slot, checks[w.slot], pis)
                    /\ UNCHANGED <<resp, sweeps>>
                [] OTHER -> UNCHANGED <<ret, resp, sweeps, checks>>
    /\ UNCHANGED <<pis, now, net, loadPending, calls, bulk, unhandled, auto, accounts>>

\* The message of the error fs.writeFile rejects with.
WriteError == "ENOSPC: no space left on device, write"

Rejection(op, id) == [kind |-> "reject", op |-> op, piId |-> id, message |-> WriteError]

\* What a failed write leaves of the file: it as it was, or a truncated
\* text that is no JSON.
FailedFiles(file) == {file, MalformedFile}

\* A write fails.  savePIs catches nothing, so the rejection goes to whoever
\* awaits it: registerPI, removePI, discoverPis and healthCheck reject in
\* turn (healthCheck's first updatePIStatus sits in its try block, so its
\* catch block runs), and a promise nobody awaits rejects unhandled.
WriteFail(i) ==
    /\ i \in 1..Len(writes)
    /\ disk' \in FailedFiles(disk)
    /\ LET w == writes[i].waiter
           rest == RemoveAt(writes, i)
       IN  CASE w.kind \in {"registerPI", "removePI", "updatePIStatus"} ->
                    /\ ret' = Rejection(w.kind, w.id)
                    /\ writes' = rest
                    /\ UNCHANGED <<pis, resp, sweeps, checks, unhandled>>
             [] w.kind = "discoverPis" ->
                    /\ sweeps' = [sweeps EXCEPT ![w.slot] = Idle]
                    /\ writes' = rest
                    /\ UNCHANGED <<pis, checks>>
                    /\ CASE sweeps[w.slot].owner = "direct" ->
                              /\ ret' = Rejection("discoverPis", Undefined)
                              /\ UNCHANGED <<resp, unhandled>>
                         [] sweeps[w.slot].owner = "admin" ->
                              /\ resp' = [status |-> 500,
                                          body |-> [success |-> FALSE, error |-> WriteError]]
                              /\ UNCHANGED <<ret, unhandled>>
                         [] OTHER -> unhandled' = TRUE /\ UNCHANGED <<ret, resp>>
             [] w.kind = "healthCheck" ->
                    LET c == checks[w.slot]
                        c2 == [c EXCEPT !.results = Append(c.results,
                                                           OfflineResult(c, WriteError, now)),
                                        !.branch = "catch"]
                        m == UpdatePIStatus(pis, c.piId, "offline", now)
                    IN  /\ UNCHANGED <<resp, sweeps>>
                        /\ IF c.branch = "catch"
                           THEN /\ checks' = [checks EXCEPT ![w.slot] = Idle]
                                /\ writes' = rest
                                /\ IF c.owner = "direct"
                                   THEN /\ ret' = Rejection("healthCheck", c.piId)
                                        /\ UNCHANGED unhandled
                                   ELSE unhandled' = TRUE /\ UNCHANGED ret
                                /\ UNCHANGED pis
                           ELSE IF MapHas(pis, c.piId)
                           THEN /\ pis' = m
                                /\ writes' = Append(rest,
                                       [content |-> Stringify(m, now),
                                        waiter |-> Waiter("healthCheck", w.slot, c.piId)])
                                /\ checks' = [checks EXCEPT ![w.slot] = c2]
                                /\ UNCHANGED <<ret, unhandled>>
                           ELSE /\ CheckGoesOn(w.slot, c2, pis)
                                /\ writes' = rest
                                /\ UNCHANGED <<pis, unhandled>>
             [] OTHER ->
                    /\ unhandled' = TRUE
                    /\ writes' = rest
                    /\ UNCHANGED <<pis, ret, resp, sweeps, checks>>
    /\ UNCHANGED <<now, net, loadPending, calls, bulk, auto, accounts>>

\* -------------------------------------------------------------- proxyToPi
\* The (endpoint, method, data) a caller hands to proxyToPi.
Forwards ==
    { [endpoint |-> "/api/status", method |-> "GET", data |-> "null"],
      [endpoint |-> "/api/control/play", method |-> "POST", data |-> "{song}"] }

\* Ids callers ask for: ids of devices, array indices, an id of no device.
AskedIds ==
    {DerivedId(IP1), DerivedId(IP2), DerivedId(IP3), "pi1", "kitchen", "0", "1", "ghost"}

InvalidPiId(piId) == "Invalid Pi ID: " \o piId

\* The axios call proxyToPi issues for a known device: the URL is built
\* from the record's ip and port fields.  owner is 0 for a direct caller
\* and k for the k-th entry of the bulk handler.
OutboundCall(pi, piId, fw, owner, t) ==
    [piId |-> piId, name |-> pi.name, ip |-> pi.ip, port |-> pi.port,
     endpoint |-> fw.endpoint, method |-> fw.method, start |-> t, owner |-> owner]

\* What proxyToPi returns once its axios call has settled with r.
ProxyResult(c, r, t) ==
    IF r.ok
    THEN [kind |-> "return", op |-> "proxyToPi", success |-> TRUE, data |-> r.data,
          piName |-> c.name, piId |-> c.piId, piIp |-> c.ip,
          responseTime |-> t - c.start]
    ELSE [kind |-> "return", op |-> "proxyToPi", success |-> FALSE,
          error |-> r.message, piName |-> c.name, piId |-> c.piId, piIp |-> c.ip,
          responseTime |-> t - c.start,
          details |-> IF r.hasResponse THEN r.response.data ELSE "Connection failed"]

\* (the catch branch writing the status of the try branch)
ObservedStatusOnline(r) == "online"

\* The status proxyToPi writes for the settled call.
ObservedStatus(r) == IF r.ok THEN "online" ELSE "offline"

\* (the lookup moved inside the try block: reading pi.ip of an unknown id
\* throws there, and the catch block turns it into a failure result)
ProxyToPiLookupInTry(piId, fw) ==
    IF ~MapHas(pis, piId)
    THEN /\ ret' = [kind |-> "return", op |-> "proxyToPi", success |-> FALSE,
                    error |-> "Cannot read properties of undefined", piName |-> Undefined,
                    piId |-> piId, piIp |-> Undefined, responseTime |-> 0,
                    details |-> "Connection failed"]
         /\ UNCHANGED <<pis, now, net, disk, loadPending, writes, calls, sweeps, bulk, resp,
                 checks, unhandled, auto, accounts>>
    ELSE /\ Len(calls) < MaxCalls
         /\ calls' = Append(calls, OutboundCall(MapGet(pis, piId), piId, fw, 0, now))
         /\ UNCHANGED <<pis, now, net, disk, loadPending, writes, sweeps, bulk, ret, resp,
                 checks, unhandled, auto, accounts>>

\* proxyToPi called directly: it throws for an unknown id before anything
\* else, and otherwise issues the outbound call and awaits it.
ProxyToPi(piId, fw) ==
    IF ~MapHas(pis, piId)
    THEN /\ ret' = [kind |-> "throw", op |-> "proxyToPi", piId |-> piId,
                    message |-> InvalidPiId(piId)]
         /\ UNCHANGED <<pis, now, net, disk, loadPending, writes, calls, sweeps, bulk, resp,
                 checks, unhandled, auto, accounts>>
    ELSE /\ Len(calls) < MaxCalls
         /\ calls' = Append(calls, OutboundCall(MapGet(pis, piId), piId, fw, 0, now))
         /\ UNCHANGED <<pis, now, net, disk, loadPending, writes, sweeps, bulk, ret, resp,
                 checks, unhandled, auto, accounts>>

\* GET /api/all/status once every proxyToPi promise has settled
AllSettled(results) == \A k \in 1..Len(results) : results[k].kind # "pending"

BulkResponse(results) ==
    [status |-> 200, body |-> [success |-> TRUE, players |-> results]]

\* The axios call of proxyToPi settles: the status is written to the store
\* (updatePIStatus runs up to its await of savePIs, which nobody awaits),
\* and the result goes to the caller.
ProxySettle(i) ==
    /\ i \in 1..Len(calls)
    /\ LET c == calls[i]
           r == Axios(net[c.ip], c.ip, c.port, c.endpoint)
           m == UpdatePIStatus(pis, c.piId, ObservedStatus(r), now)
           result == ProxyResult(c, r, now)
       IN  /\ pis' = m
           /\ IF MapHas(pis, c.piId)
              THEN CanSave /\ writes' = SavePIs(m, Waiter("none", 0, c.piId))
              ELSE UNCHANGED writes
           /\ calls' = RemoveAt(calls, i)
           /\ IF c.owner = 0
              THEN ret' = result /\ UNCHANGED <<bulk, resp>>
              ELSE LET results == [bulk.results EXCEPT ![c.owner] = result]
                   IN  /\ UNCHANGED ret
                       /\ IF AllSettled(results)
                          THEN bulk' = Idle /\ resp' = BulkResponse(results)
                          ELSE bulk' = [bulk EXCEPT !.results = results] /\ UNCHANGED resp
    /\ UNCHANGED <<now, net, disk, loadPending, sweeps,
                 checks, unhandled, auto, accounts>>

\* ------------------------------------------------------------ HTTP routes
\* Who sends a request: no token, a token verifyToken rejects, or a token
\* that verifies and carries a role.
Callers ==
    { [token |-> "none", role |-> Undefined], [token |-> "bad", role |-> Undefined],
      [token |-> "valid", role |-> "user"], [token |-> "valid", role |-> "admin"] }

Pass == [kind |-> "next", status |-> 0, error |-> ""]
Deny(status, error) == [kind |-> "response", status |-> status, error |-> error]

\* authenticateToken: 401 without a token, 403 for one that does not verify
AuthenticateToken(caller) ==
    IF caller.token = "none" THEN Deny(401, "Access token required")
    ELSE IF caller.token = "bad" THEN Deny(403, "Invalid or expired token")
    ELSE Pass

\* (a gate that lets every caller with a verified token through)
RequireAdminAnyRole(caller) ==
    IF caller.token # "valid"
    THEN Deny(403, "Admin access required")
    ELSE Pass

\* requireAdmin
RequireAdmin(caller) ==
    IF caller.token # "valid" \/ caller.role # "admin"
    THEN Deny(403, "Admin access required")
    ELSE Pass

Route(method, pattern, auth, admin, handler) ==
    [kind |-> "route", method |-> method, pattern |-> pattern, auth |-> auth,
     admin |-> admin, handler |-> handler]

\* The middleware and routes of server.js in the order they are mounted.
\* A pattern segment starting with ":" is a parameter.
Stack ==
    << Route("POST", <<"api", "auth", "login">>, FALSE, FALSE, "login"),
       Route("POST", <<"api", "auth", "request-access">>, FALSE, FALSE, "requestAccess"),
       Route("GET", <<"api", "auth", "access-status">>, FALSE, FALSE, "accessStatus"),
       Route("GET", <<"api", "auth", "validate">>, TRUE, FALSE, "validate"),
       Route("GET", <<"api", "admin", "requests">>, TRUE, TRUE, "listRequests"),
       Route("POST", <<"api", "admin", "requests", ":requestId", "approve">>, TRUE, TRUE,
             "approveRequest"),
       Route("POST", <<"api", "admin", "requests", ":requestId", "reject">>, TRUE, TRUE,
             "rejectRequest"),
       Route("GET", <<"api", "admin", "metrics">>, TRUE, TRUE, "metrics"),
       [kind |-> "use", method |-> "ALL", pattern |-> <<"api">>, auth |-> TRUE,
        admin |-> FALSE, handler |-> "none"],
       Route("GET", <<"health">>, FALSE, FALSE, "health"),
       Route("GET", <<"api", "all", "status">>, FALSE, FALSE, "allStatus"),
       Route("GET", <<"api", "players">>, FALSE, FALSE, "players"),
       Route("GET", <<"api", "admin", "pis">>, TRUE, TRUE, "adminListPis"),
       Route("GET", <<"api", "admin", "pis", ":piId">>, TRUE, TRUE, "adminGetPi"),
       Route("POST", <<"api", "admin", "pis">>, TRUE, TRUE, "adminAddPi"),
       Route("DELETE", <<"api", "admin", "pis", ":piId">>, TRUE, TRUE, "adminRemovePi"),
       Route("POST", <<"api", "admin", "discover">>, TRUE, TRUE, "adminDiscover"),
       Route("POST", <<"api", "admin", "health-check">>, TRUE, TRUE, "adminHealthCheck") >>

IsParam(seg) == seg \in {":piId", ":requestId"}

\* Express matches a route when the whole path fits its pattern ...
MatchRoute(pattern, path) ==
    /\ Len(pattern) = Len(path)
    /\ \A k \in 1..Len(pattern) : IsParam(pattern[k]) \/ pattern[k] = path[k]

\* ... and mounted middleware when the path starts with its prefix.
MatchPrefix(prefix, path) ==
    /\ Len(prefix) <= Len(path)
    /\ \A k \in 1..Len(prefix) : prefix[k] = path[k]

\* What the guards of a layer say to the caller.
Guards(layer, caller) ==
    IF layer.auth /\ AuthenticateToken(caller).kind = "response"
    THEN AuthenticateToken(caller)
    ELSE IF layer.admin THEN RequireAdmin(caller) ELSE Pass

\* The stack is walked from layer k on: the first matching route whose
\* guards pass names the handler; a guard that denies ends the request; a
\* request no route matches reaches the 404 handler.
RECURSIVE Dispatch(_, _, _, _)
Dispatch(caller, method, path, k) ==
    IF k > Len(Stack)
    THEN [kind |-> "response", status |-> 404, error |-> "Endpoint not found",
          handler |-> "none"]
    ELSE LET layer == Stack[k]
             hit == IF layer.kind = "use" THEN MatchPrefix(layer.pattern, path)
                    ELSE layer.method = method /\ MatchRoute(layer.pattern, path)
             g == Guards(layer, caller)
         IN  IF ~hit THEN Dispatch(caller, method, path, k + 1)
             ELSE IF g.kind = "response"
             THEN [kind |-> "response", status |-> g.status, error |-> g.error,
                   handler |-> "none"]
             ELSE IF layer.kind = "use" THEN Dispatch(caller, method, path, k + 1)
             ELSE [kind |-> "handler", status |-> 0, error |-> "",
                   handler |-> layer.handler]

Handler(caller, method, path) == Dispatch(caller, method, path, 1).handler

ErrorResponse(status, error) ==
    [status |-> status, body |-> [success |-> FALSE, error |-> error]]

\* A request a guard denies or no route matches.
Rejected(caller, method, path) ==
    /\ Dispatch(caller, method, path, 1).kind = "response"
    /\ resp' = ErrorResponse(Dispatch(caller, method, path, 1).status,
                             Dispatch(caller, method, path, 1).error)
    /\ UNCHANGED <<pis, now, net, disk, loadPending, writes, calls, sweeps, bulk, ret,
                 checks, unhandled, auto, accounts>>

\* ---------------------------------------------------- GET /api/all/status
\* Object.keys of the array getAllPIs() returns: "0", "1", ...
ArrayKeys(m) == [k \in 1..Len(m) |-> ToString(k - 1)]

\* The k-th promise of the handler right after the calls were made: the
\* rejection of proxyToPi turned into a result by .catch, or still pending.
BulkEntry(m, piId) ==
    IF MapHas(m, piId)
    THEN [kind |-> "pending", piId |-> piId]
    ELSE [kind |-> "return", piId |-> piId, success |-> FALSE,
          error |-> InvalidPiId(piId)]

\* The outbound calls the handler's proxyToPi invocations issue.
RECURSIVE BulkCalls(_, _, _, _)
BulkCalls(m, keys, k, t) ==
    IF k > Len(keys) THEN <<>>
    ELSE (IF MapHas(m, keys[k])
          THEN <<OutboundCall(MapGet(m, keys[k]), keys[k],
                              [endpoint |-> "/api/status", method |-> "GET"], k, t)>>
          ELSE <<>>) \o BulkCalls(m, keys, k + 1, t)

\* The handler of GET /api/all/status up to its await of Promise.all.
AllStatus(caller) ==
    /\ Handler(caller, "GET", <<"api", "all", "status">>) = "allStatus"
    /\ bulk.pc = "idle"
    /\ LET keys == ArrayKeys(pis)
           results == [k \in 1..Len(keys) |-> BulkEntry(pis, keys[k])]
           issued == BulkCalls(pis, keys, 1, now)
       IN  /\ Len(calls) + Len(issued) <= MaxCalls
           /\ calls' = calls \o issued
           /\ IF AllSettled(results)
              THEN bulk' = Idle /\ resp' = BulkResponse(results)
              ELSE bulk' = [pc |-> "waiting", results |-> results] /\ UNCHANGED resp
    /\ UNCHANGED <<pis, now, net, disk, loadPending, writes, sweeps, ret,
                 checks, unhandled, auto, accounts>>

\* ------------------------------------------------------ the other routes
Methods == {"GET", "POST", "DELETE"}

\* Request paths: the registry's routes, the documented per-player routes,
\* and a path nothing documents.
Paths ==
    { <<"health">>, <<"api", "all", "status">>, <<"api", "players">>,
      <<"api", "admin", "pis">>, <<"api", "admin", "pis", "pi1">>,
      <<"api", "admin", "discover">>, <<"api", "admin", "health-check">>,
      <<"api", "pi1", "status">>, <<"api", DerivedId(IP1), "status">>,
      <<"api", "pi1", "control", "play">>, <<"api", "nothing">> }

\* The methods of class PIDiscovery.  Calling anything else on the object
\* throws "TypeError: piDiscovery.<name> is not a function".
PIDiscoveryMethods ==
    {"loadPIs", "savePIs", "discoverPis", "registerPI", "removePI", "updatePIStatus",
     "getAllPIs", "getOnlinePIs", "getPI", "healthCheck", "startAutoDiscovery",
     "stopAutoDiscovery"}

NotAFunction(name) == "piDiscovery." \o name \o " is not a function"

\* GET /api/players: Object.entries of the array getAllPIs() returns, so
\* the id of an entry is the record's index in the array.
PlayerEntry(m, k) ==
    [id |-> ToString(k - 1), name |-> m[k].name,
     location |-> OrElse(m[k].location, "Unknown"), status |-> m[k].status,
     lastSeen |-> m[k].lastSeen, available |-> (m[k].status = "online")]

Players(caller) ==
    /\ Handler(caller, "GET", <<"api", "players">>) = "players"
    /\ resp' = [status |-> 200,
                body |-> [success |-> TRUE,
                          players |-> [k \in 1..Len(pis) |-> PlayerEntry(pis, k)]]]
    /\ UNCHANGED <<pis, now, net, disk, loadPending, writes, calls, sweeps, bulk, ret,
                 checks, unhandled, auto, accounts>>

\* GET /api/admin/pis
AdminListPis(caller) ==
    /\ Handler(caller, "GET", <<"api", "admin", "pis">>) = "adminListPis"
    /\ resp' = [status |-> 200, body |-> [success |-> TRUE, pis |-> pis]]
    /\ UNCHANGED <<pis, now, net, disk, loadPending, writes, calls, sweeps, bulk, ret,
                 checks, unhandled, auto, accounts>>

\* GET /api/admin/pis/:piId
AdminGetPi(caller, piId) ==
    /\ Handler(caller, "GET", <<"api", "admin", "pis", piId>>) = "adminGetPi"
    /\ resp' = IF MapHas(pis, piId)
               THEN [status |-> 200, body |-> [success |-> TRUE, pi |-> MapGet(pis, piId)]]
               ELSE ErrorResponse(404, "PI not found")
    /\ UNCHANGED <<pis, now, net, disk, loadPending, writes, calls, sweeps, bulk, ret,
                 checks, unhandled, auto, accounts>>

\* Bodies of POST /api/admin/pis.  An absent ip is the empty address.
AddBodies ==
    { [ip |-> IP3, name |-> "Pool", location |-> "Patio", description |-> "by the pool"],
      [ip |-> IP1, name |-> "Lounge", location |-> Undefined, description |-> Undefined],
      [ip |-> NoIp, name |-> "Pool", location |-> Undefined, description |-> Undefined],
      [ip |-> IP3, name |-> Undefined, location |-> "Patio", description |-> Undefined] }

\* POST /api/admin/pis: 400 without ip or name; otherwise the handler calls
\* piDiscovery.addPI, which throws, and the error middleware answers 500.
AdminAddPi(caller, body) ==
    /\ Handler(caller, "POST", <<"api", "admin", "pis">>) = "adminAddPi"
    /\ IF body.ip = NoIp \/ body.name \in {Undefined, ""}
       THEN resp' = ErrorResponse(400, "IP and name are required")
       ELSE /\ "addPI" \notin PIDiscoveryMethods
            /\ resp' = ErrorResponse(500, NotAFunction("addPI"))
    /\ UNCHANGED <<pis, now, net, disk, loadPending, writes, calls, sweeps, bulk, ret,
                 checks, unhandled, auto, accounts>>

\* DELETE /api/admin/pis/:piId: removePI runs up to its await; the handler
\* tests the promise it returned, which is truthy, and answers at once.
AdminRemovePi(caller, piId) ==
    /\ Handler(caller, "DELETE", <<"api", "admin", "pis", piId>>) = "adminRemovePi"
    /\ IF MapHas(pis, piId)
       THEN /\ CanSave
            /\ pis' = MapDelete(pis, piId)
            /\ writes' = SavePIs(MapDelete(pis, piId), Waiter("none", 0, piId))
            /\ checks' = AfterDelete(checks, IndexOf(pis, piId))
       ELSE UNCHANGED <<pis, writes, checks>>
    /\ resp' = [status |-> 200,
                body |-> [success |-> TRUE, message |-> "PI removed successfully"]]
    /\ UNCHANGED <<now, net, disk, loadPending, calls, sweeps, bulk, ret, unhandled, auto, accounts>>

\* POST /api/admin/discover: awaits discoverPis and answers with its list.
AdminDiscover(caller, s) ==
    /\ Handler(caller, "POST", <<"api", "admin", "discover">>) = "adminDiscover"
    /\ StartSweep(s, "admin")

\* POST /api/admin/health-check: piDiscovery.checkAllPIHealth throws inside
\* the handler's try, and its catch answers 500 with the message.
AdminHealthCheck(caller) ==
    /\ Handler(caller, "POST", <<"api", "admin", "health-check">>) = "adminHealthCheck"
    /\ "checkAllPIHealth" \notin PIDiscoveryMethods
    /\ resp' = ErrorResponse(500, NotAFunction("checkAllPIHealth"))
    /\ UNCHANGED <<pis, now, net, disk, loadPending, writes, calls, sweeps, bulk, ret,
                 checks, unhandled, auto, accounts>>

\* GET /health: piDiscovery.getAllPIStatus throws, the error middleware
\* answers 500.
Health ==
    /\ "getAllPIStatus" \notin PIDiscoveryMethods
    /\ resp' = ErrorResponse(500, NotAFunction("getAllPIStatus"))
    /\ UNCHANGED <<pis, now, net, disk, loadPending, writes, calls, sweeps, bulk, ret,
                 checks, unhandled, auto, accounts>>

\* --------------------------------------------------------- middleware/auth
\* The bodies of POST /api/auth/request-access.
AccessBodies ==
    { [name |-> "Ana", email |-> "ana@resort.com", reason |-> "night shift",
       organization |-> "Spa", phone |-> Undefined],
      [name |-> "Root", email |-> "admin@resort.com", reason |-> "audit",
       organization |-> Undefined, phone |-> Undefined],
      [name |-> "Bo", email |-> "bo@resort.com", reason |-> "",
       organization |-> Undefined, phone |-> Undefined] }

\* a || null
OrNull(a) == IF a \in {Undefined, ""} THEN Null ELSE a

RequestId(t) == "req-" \o ToString(t)
UserId(t) == "user-" \o ToString(t)

\* The request handleAccessRequest stores.
AccessRequest(body, t) ==
    [id |-> RequestId(t), name |-> body.name, email |-> body.email,
     reason |-> body.reason, organization |-> OrNull(body.organization),
     phone |-> OrNull(body.phone), status |-> "pending", createdAt |-> t,
     processedAt |-> Absent, rejectionReason |-> Undefined]

\* users.set(key, user)
UsersSet(us, user) ==
    IF \E k \in 1..Len(us) : us[k].key = user.key
    THEN [us EXCEPT ![CHOOSE k \in 1..Len(us) : us[k].key = user.key] = user]
    ELSE Append(us, user)

\* Array.from(users.values()).find(u => u.email === email): the index of
\* the first user with that email in insertion order, 0 for none.
FindUser(us, email) ==
    IF \E k \in 1..Len(us) : us[k].email = email
    THEN CHOOSE k \in 1..Len(us) :
             /\ us[k].email = email
             /\ \A j \in 1..(k - 1) : us[j].email # email
    ELSE 0

\* generateToken: the payload jwt.sign signs
GenerateToken(user) ==
    [id |-> user.id, email |-> user.email, name |-> user.name, role |-> user.role]

\* const { password: _, ...userWithoutPassword } = user
UserWithoutPassword(user) ==
    [f \in (DOMAIN user) \ {"key", "password"} |-> user[f]]

\* POST /api/auth/request-access
HandleAccessRequest(body) ==
    /\ IF "" \in {body.name, body.email, body.reason}
       THEN /\ resp' = ErrorResponse(400, "Name, email, and reason are required")
            /\ UNCHANGED accessRequests
       ELSE /\ accessRequests' = MapSet(accessRequests, AccessRequest(body, now))
            /\ resp' = [status |-> 200,
                        body |-> [success |-> TRUE,
                                  message |-> "Access request submitted successfully",
                                  requestId |-> RequestId(now)]]
    /\ UNCHANGED <<pis, now, net, disk, loadPending, writes, calls, sweeps, bulk, ret,
                   checks, unhandled, auto, users>>

\* getStatusMessage
GetStatusMessage(status) ==
    CASE status = "pending" -> "Your access request is pending approval"
      [] status = "approved" -> "Your access has been approved. You can now log in."
      [] status = "rejected" -> "Your access request has been rejected"
      [] OTHER -> "Unknown status"

\* The first request of that email in insertion order, 0 for none.
FindRequest(rs, email) ==
    IF \E k \in 1..Len(rs) : rs[k].email = email
    THEN CHOOSE k \in 1..Len(rs) :
             /\ rs[k].email = email
             /\ \A j \in 1..(k - 1) : rs[j].email # email
    ELSE 0

\* GET /api/auth/access-status?email=...
HandleAccessStatus(email) ==
    /\ resp' = IF email = "" THEN ErrorResponse(400, "Email is required")
               ELSE IF FindRequest(accessRequests, email) = 0
               THEN ErrorResponse(404, "No access request found for this email")
               ELSE LET request == accessRequests[FindRequest(accessRequests, email)]
                    IN  [status |-> 200,
                         body |-> [success |-> TRUE, status |-> request.status,
                                   message |-> GetStatusMessage(request.status),
                                   request |-> [id |-> request.id,
                                                status |-> request.status,
                                                createdAt |-> request.createdAt]]]
    /\ UNCHANGED <<pis, now, net, disk, loadPending, writes, calls, sweeps, bulk, ret,
                   checks, unhandled, auto, accounts>>

\* The role of the body of an approval; 'operator' when it has none.
ApproveRoles == {Undefined, "admin", "viewer"}
GrantedRole(role) == IF role = Undefined THEN "operator" ELSE role

\* The user handleApproveRequest creates: it has no password.
ApprovedUser(request, role, t) ==
    User(request.email, UserId(t), request.email, request.name, GrantedRole(role),
         Undefined, t, request.organization, request.phone)

\* POST /api/admin/requests/:requestId/approve
HandleApproveRequest(caller, requestId, role) ==
    /\ Handler(caller, "POST", <<"api", "admin", "requests", requestId, "approve">>)
           = "approveRequest"
    /\ IF ~MapHas(accessRequests, requestId)
       THEN /\ resp' = ErrorResponse(404, "Access request not found")
            /\ UNCHANGED accounts
       ELSE IF MapGet(accessRequests, requestId).status # "pending"
       THEN /\ resp' = ErrorResponse(400, "Request already processed")
            /\ UNCHANGED accounts
       ELSE LET request == MapGet(accessRequests, requestId)
                user == ApprovedUser(request, role, now)
            IN  /\ users' = UsersSet(users, user)
                /\ accessRequests' = MapSet(accessRequests,
                       [request EXCEPT !.status = "approved", !.processedAt = now])
                /\ resp' = [status |-> 200,
                            body |-> [success |-> TRUE,
                                      message |-> "Access request approved",
                                      user |-> GenerateToken(user)]]
    /\ UNCHANGED <<pis, now, net, disk, loadPending, writes, calls, sweeps, bulk, ret,
                   checks, unhandled, auto>>

\* POST /api/admin/requests/:requestId/reject
HandleRejectRequest(caller, requestId, reason) ==
    /\ Handler(caller, "POST", <<"api", "admin", "requests", requestId, "reject">>)
           = "rejectRequest"
    /\ IF ~MapHas(accessRequests, requestId)
       THEN /\ resp' = ErrorResponse(404, "Access request not found")
            /\ UNCHANGED accessRequests
       ELSE IF MapGet(accessRequests, requestId).status # "pending"
       THEN /\ resp' = ErrorResponse(400, "Request already processed")
            /\ UNCHANGED accessRequests
       ELSE /\ accessRequests' = MapSet(accessRequests,
                   [MapGet(accessRequests, requestId) EXCEPT
                        !.status = "rejected",
                        !.rejectionReason = OrElse(reason, "No reason provided"),
                        !.processedAt = now])
            /\ resp' = [status |-> 200,
                        body |-> [success |-> TRUE,
                                  message |-> "Access request rejected"]]
    /\ UNCHANGED <<pis, now, net, disk, loadPending, writes, calls, sweeps, bulk, ret,
                   checks, unhandled, auto, users>>

\* What POST /api/auth/login is sent.
LoginEmails == {"ana@resort.com", "admin@resort.com", ""}
LoginPasswords == {"admin123", "letmein", ""}

\* What handleLogin answers.
LoginResponse(us, email, password) ==
    IF email = "" \/ password = ""
    THEN ErrorResponse(400, "Email and password are required")
    ELSE IF FindUser(us, email) = 0 \/ us[FindUser(us, email)].password # password
    THEN ErrorResponse(401, "Invalid credentials")
    ELSE IF us[FindUser(us, email)].approvedAt = Absent
    THEN ErrorResponse(403, "Access not approved yet")
    ELSE [status |-> 200,
          body |-> [success |-> TRUE,
                    token |-> GenerateToken(us[FindUser(us, email)]),
                    user |-> UserWithoutPassword(us[FindUser(us, email)])]]

\* POST /api/auth/login
HandleLogin(email, password) ==
    /\ resp' = LoginResponse(users, email, password)
    /\ UNCHANGED <<pis, now, net, disk, loadPending, writes, calls, sweeps, bulk, ret,
                   checks, unhandled, auto, accounts>>

\* ------------------------------------- startAutoDiscovery / stopAutoDiscovery
\* The handle setInterval returns for the n-th timer armed.
Timer(n, kind) == [id |-> n, kind |-> kind]

\* startAutoDiscovery: a first discoverPis() that nobody awaits, and two
\* timers whose handles overwrite this.discoveryInterval and
\* this.healthInterval.
StartAutoDiscovery(s) ==
    /\ starts < MaxStarts
    /\ sweeps[s].pc = "idle"
    /\ sweeps' = [sweeps EXCEPT ![s] = [pc |-> "probe", i |-> 1, discovered |-> <<>>,
                                       owner |-> "timer"]]
    /\ timers' = timers \cup {Timer(2 * starts + 1, "discovery"),
                              Timer(2 * starts + 2, "health")}
    /\ discoveryInterval' = 2 * starts + 1
    /\ healthInterval' = 2 * starts + 2
    /\ starts' = starts + 1
    /\ UNCHANGED <<pis, now, net, disk, loadPending, writes, calls, bulk, ret, resp,
                   checks, unhandled, accounts>>

\* A discovery timer that is armed fires: this.discoverPis()
DiscoveryTimer(t, s) ==
    /\ t \in timers
    /\ t.kind = "discovery"
    /\ StartSweep(s, "timer")

\* A health timer that is armed fires: this.healthCheck()
HealthTimer(t, h) ==
    /\ t \in timers
    /\ t.kind = "health"
    /\ StartCheck(h, "timer")

\* clearInterval(handle), guarded by if (handle)
ClearInterval(ts, handle) == IF handle # 0 THEN {t \in ts : t.id # handle} ELSE ts

\* stopAutoDiscovery: the two timers whose handles the object holds are
\* cleared; sweeps under way are not waited for.
StopAutoDiscovery ==
    /\ timers' = ClearInterval(ClearInterval(timers, discoveryInterval), healthInterval)
    /\ ret' = [kind |-> "return", op |-> "stopAutoDiscovery"]
    /\ UNCHANGED <<pis, now, net, disk, loadPending, writes, calls, sweeps, bulk, resp,
                   checks, unhandled, discoveryInterval, healthInterval, starts, accounts>>

\* ------------------------------------------------------------------- spec
Next ==
    \/ Tick
    \/ \E ip \in IPs, mode \in Modes : NetChange(ip, mode)
    \/ LoadPIs
    \/ \E i \in 1..MaxWrites : WriteDone(i)
    \/ \E piData \in RegisterInputs : RegisterPI(piData)
    \/ \E piId \in AskedIds : RemovePI(piId)
    \/ \E s \in 1..MaxSweeps : DiscoverPis(s)
    \/ \E s \in 1..MaxSweeps : DiscoverProbe(s)
    \/ \E piId \in AskedIds, fw \in Forwards : ProxyToPi(piId, fw)
    \/ \E i \in 1..MaxCalls : ProxySettle(i)
    \/ \E caller \in Callers, method \in Methods, path \in Paths :
           Rejected(caller, method, path)
    \/ \E caller \in Callers : AllStatus(caller)
    \/ \E caller \in Callers : Players(caller)
    \/ \E caller \in Callers : AdminListPis(caller)
    \/ \E caller \in Callers, piId \in AskedIds : AdminGetPi(caller, piId)
    \/ \E caller \in Callers, body \in AddBodies : AdminAddPi(caller, body)
    \/ \E caller \in Callers, piId \in AskedIds : AdminRemovePi(caller, piId)
    \/ \E caller \in Callers, s \in 1..MaxSweeps : AdminDiscover(caller, s)
    \/ \E caller \in Callers : AdminHealthCheck(caller)
    \/ Health
    \/ \E h \in 1..MaxSweeps : HealthCheck(h)
    \/ \E h \in 1..MaxSweeps : CheckProbe(h)
    \/ \E i \in 1..MaxWrites : WriteFail(i)
    \/ \E s \in 1..MaxSweeps : StartAutoDiscovery(s)
    \/ \E t \in timers, s \in 1..MaxSweeps : DiscoveryTimer(t, s)
    \/ \E t \in timers, h \in 1..MaxSweeps : HealthTimer(t, h)
    \/ StopAutoDiscovery
    \/ \E piId \in AskedIds, status \in Statuses : SetPIStatus(piId, status)
    \/ \E body \in AccessBodies : HandleAccessRequest(body)
    \/ \E email \in LoginEmails : HandleAccessStatus(email)
    \/ \E caller \in Callers, t \in 0..MaxTime, role \in ApproveRoles :
          HandleApproveRequest(caller, RequestId(t), role)
    \/ \E caller \in Callers, t \in 0..MaxTime, reason \in {Undefined, "no"} :
          HandleRejectRequest(caller, RequestId(t), reason)
    \/ \E email \in LoginEmails, password \in LoginPasswords : HandleLogin(email, password)

Spec == Init /\ [][Next]_vars

\* ------------------------------------------------- focused specifications
\* Each specification below runs a part of Next on a part of its inputs.

\* A step that leaves the file system room for one more write: the
\* operations with this condition do not fill the queue of writes.
OneAtATime == Len(writes') < MaxWrites

\* Forwarding to devices that were loaded or registered, with removals and
\* the constructor's load racing the calls.
FwdRegister == {piData \in RegisterInputs : piData.ip = IP3 /\ piData.id = Undefined}
FwdIds == {"pi1", DerivedId(IP3), "ghost"}

InitFwd == Init /\ net[IP2] = "down" /\ net[IP3] = "ok"

NextFwd ==
    \/ LoadPIs
    \/ \E i \in 1..MaxWrites : WriteDone(i)
    \/ \E piData \in FwdRegister : RegisterPI(piData) /\ OneAtATime
    \/ RemovePI("pi1") /\ OneAtATime
    \/ \E piId \in FwdIds, fw \in Forwards : ProxyToPi(piId, fw)
    \/ \E i \in 1..MaxCalls : ProxySettle(i) /\ OneAtATime

SpecFwd == InitFwd /\ [][NextFwd]_vars

\* Forwarding to devices that discovery found.
FwdDiscIds == {"pi1", DerivedId(IP1), DerivedId(IP2)}

InitFwdDisc == Init /\ net[IP2] = "down" /\ net[IP3] = "down" /\ disk # MalformedFile

NextFwdDisc ==
    \/ Tick
    \/ LoadPIs
    \/ \E i \in 1..MaxWrites : WriteDone(i)
    \/ \E s \in 1..MaxSweeps : DiscoverPis(s)
    \/ \E s \in 1..MaxSweeps : DiscoverProbe(s) /\ OneAtATime
    \/ \E piId \in FwdDiscIds, fw \in Forwards : ProxyToPi(piId, fw)
    \/ \E i \in 1..MaxCalls : ProxySettle(i) /\ OneAtATime

SpecFwdDisc == InitFwdDisc /\ [][NextFwdDisc]_vars

\* Discovery sweeps over a store that the load also fills, while the device
\* of the first candidate comes and goes and the second candidate has none.
InitDisc == Init /\ net[IP2] = "down" /\ net[IP3] = "down" /\ disk # MalformedFile

NextDisc ==
    \/ Tick
    \/ \E mode \in Modes : NetChange(IP1, mode)
    \/ LoadPIs
    \/ \E i \in 1..MaxWrites : WriteDone(i)
    \/ \E s \in 1..MaxSweeps : DiscoverPis(s)
    \/ \E s \in 1..MaxSweeps : DiscoverProbe(s) /\ OneAtATime

SpecDisc == InitDisc /\ [][NextDisc]_vars

\* The bulk status request over a store of loaded and registered devices.
BulkRegister == {piData \in RegisterInputs : piData.ip = IP3}

InitBulk == Init /\ net[IP2] = "down"

NextBulk ==
    \/ LoadPIs
    \/ \E i \in 1..MaxWrites : WriteDone(i)
    \/ \E piData \in BulkRegister : RegisterPI(piData) /\ OneAtATime
    \/ \E caller \in Callers : AllStatus(caller)
    \/ \E i \in 1..MaxCalls : ProxySettle(i) /\ OneAtATime

SpecBulk == InitBulk /\ [][NextBulk]_vars

\* The routes, over a store of loaded and registered devices.
InitHttp == Init /\ net = [ip \in IPs |-> "ok"]

NextHttp ==
    \/ LoadPIs
    \/ \E i \in 1..MaxWrites : WriteDone(i)
    \/ \E piData \in FwdRegister : RegisterPI(piData) /\ OneAtATime
    \/ \E caller \in Callers, method \in Methods, path \in Paths :
           Rejected(caller, method, path)
    \/ \E caller \in Callers : Players(caller)
    \/ \E caller \in Callers : AdminListPis(caller)
    \/ \E caller \in Callers, piId \in FwdIds : AdminGetPi(caller, piId)
    \/ \E caller \in Callers, body \in AddBodies : AdminAddPi(caller, body)
    \/ \E caller \in Callers, piId \in FwdIds : AdminRemovePi(caller, piId) /\ OneAtATime
    \/ \E caller \in Callers : AdminHealthCheck(caller)
    \/ Health

SpecHttp == InitHttp /\ [][NextHttp]_vars

\* The admin operations, asked for by every kind of caller, over a store
\* that is loaded and that discovery fills.
AdminRequests ==
    { [method |-> "GET", path |-> <<"api", "admin", "pis">>],
      [method |-> "GET", path |-> <<"api", "admin", "pis", "pi1">>],
      [method |-> "POST", path |-> <<"api", "admin", "pis">>],
      [method |-> "DELETE", path |-> <<"api", "admin", "pis", "pi1">>],
      [method |-> "POST", path |-> <<"api", "admin", "discover">>],
      [method |-> "POST", path |-> <<"api", "admin", "health-check">>] }

AdminIds == {"pi1", "ghost"}

InitAdmin ==
    Init /\ net[IP1] = "ok" /\ net[IP2] = "down" /\ net[IP3] = "down" /\ disk # MalformedFile

NextAdmin ==
    \/ LoadPIs
    \/ \E i \in 1..MaxWrites : WriteDone(i)
    \/ \E caller \in Callers, rq \in AdminRequests : Rejected(caller, rq.method, rq.path)
    \/ \E caller \in Callers : AdminListPis(caller)
    \/ \E caller \in Callers, piId \in AdminIds : AdminGetPi(caller, piId)
    \/ \E caller \in Callers, body \in AddBodies : AdminAddPi(caller, body)
    \/ \E caller \in Callers, piId \in AdminIds : AdminRemovePi(caller, piId) /\ OneAtATime
    \/ \E caller \in Callers, s \in 1..MaxSweeps : AdminDiscover(caller, s)
    \/ \E s \in 1..MaxSweeps : DiscoverProbe(s) /\ OneAtATime
    \/ \E caller \in Callers : AdminHealthCheck(caller)

SpecAdmin == InitAdmin /\ [][NextAdmin]_vars

\* The operations of the store called directly.
StoreIds == {"pi1", "ghost"}

InitStore == Init /\ net = [ip \in IPs |-> "down"]

NextStore ==
    \/ Tick
    \/ LoadPIs
    \/ \E i \in 1..MaxWrites : WriteDone(i)
    \/ \E piData \in FwdRegister : RegisterPI(piData) /\ OneAtATime
    \/ \E piId \in StoreIds : RemovePI(piId) /\ OneAtATime
    \/ \E piId \in StoreIds, status \in Statuses : SetPIStatus(piId, status) /\ OneAtATime

SpecStore == InitStore /\ [][NextStore]_vars

\* Saving and loading: stores of registered devices, ids that are array
\* indices among them, are written and then read by the constructor's load.
InitTrip == Init /\ net = [ip \in IPs |-> "down"] /\ disk # MalformedFile

NextTrip ==
    \/ Tick
    \/ LoadPIs
    \/ \E i \in 1..MaxWrites : WriteDone(i)
    \/ \E piData \in BulkRegister : RegisterPI(piData) /\ OneAtATime

SpecTrip == InitTrip /\ [][NextTrip]_vars

\* Mutating operations whose snapshot writes may fail: registration,
\* removal, status updates, forwards and discovery sweeps.
FailForwards == {fw \in Forwards : fw.method = "GET"}

InitFail ==
    Init /\ net[IP1] \in {"ok", "down"} /\ net[IP2] = "down" /\ net[IP3] = "down"
         /\ disk # MalformedFile

NextFail ==
    \/ LoadPIs
    \/ \E i \in 1..MaxWrites : WriteDone(i)
    \/ \E i \in 1..MaxWrites : WriteFail(i)
    \/ \E piData \in FwdRegister : RegisterPI(piData) /\ OneAtATime
    \/ RemovePI("pi1") /\ OneAtATime
    \/ \E status \in Statuses : SetPIStatus("pi1", status) /\ OneAtATime
    \/ \E fw \in FailForwards : ProxyToPi("pi1", fw)
    \/ \E i \in 1..MaxCalls : ProxySettle(i) /\ OneAtATime
    \/ \E s \in 1..MaxSweeps : DiscoverPis(s)
    \/ \E s \in 1..MaxSweeps : DiscoverProbe(s) /\ OneAtATime

SpecFail == InitFail /\ [][NextFail]_vars

\* The timers: startAutoDiscovery and stopAutoDiscovery called in any
\* order and number, with the sweeps the timers start.
InitAuto ==
    Init /\ net[IP1] = "ok" /\ net[IP2] = "down" /\ net[IP3] = "down"
         /\ disk = SeedSnapshot

NextAuto ==
    \/ LoadPIs
    \/ \E i \in 1..MaxWrites : WriteDone(i)
    \/ \E s \in 1..MaxSweeps : StartAutoDiscovery(s)
    \/ StopAutoDiscovery
    \/ \E t \in timers, s \in 1..MaxSweeps : DiscoveryTimer(t, s)
    \/ \E t \in timers, h \in 1..MaxSweeps : HealthTimer(t, h)
    \/ \E s \in 1..MaxSweeps : DiscoverProbe(s) /\ OneAtATime
    \/ \E h \in 1..MaxSweeps : CheckProbe(h) /\ OneAtATime

SpecAuto == InitAuto /\ [][NextAuto]_vars

\* Health checks called directly over loaded and registered devices; the
\* store is mutated by nothing else while a check is under way.
NoCheck == \A h \in 1..MaxSweeps : checks[h].pc = "idle"

InitHealth == Init /\ disk = SeedSnapshot /\ net[IP2] = "down" /\ net[IP3] \in {"ok", "down"}

NextHealth ==
    \/ Tick
    \/ NoCheck /\ LoadPIs
    \/ \E i \in 1..MaxWrites : WriteDone(i)
    \/ \E piData \in FwdRegister : NoCheck /\ RegisterPI(piData)
    \/ \E h \in 1..MaxSweeps : NoCheck /\ HealthCheck(h)
    \/ \E h \in 1..MaxSweeps : CheckProbe(h)

SpecHealth == InitHealth /\ [][NextHealth]_vars

\* The same with writes that fail.
NextHealthFail ==
    \/ Tick
    \/ NoCheck /\ LoadPIs
    \/ \E i \in 1..MaxWrites : WriteDone(i)
    \/ \E i \in 1..MaxWrites : WriteFail(i)
    \/ \E piData \in FwdRegister : NoCheck /\ RegisterPI(piData)
    \/ \E h \in 1..MaxSweeps : NoCheck /\ HealthCheck(h)
    \/ \E h \in 1..MaxSweeps : CheckProbe(h)

SpecHealthFail == InitHealth /\ [][NextHealthFail]_vars

\* Forwards, health checks and discovery sweeps observing pi1, whose device
\* answers without a success flag and then goes down, once the
\* constructor's load has settled; one check and one sweep at a time.
NoSweep == \A s \in 1..MaxSweeps : sweeps[s].pc = "idle"

InitObserve ==
    /\ Init
    /\ disk = SeedSnapshot
    /\ net[IP1] = "nosuccess"
    /\ net[IP2] = "down"
    /\ net[IP3] = "down"

NextObserve ==
    \/ Tick
    \/ NetChange(IP1, "down")
    \/ LoadPIs
    \/ \E i \in 1..MaxWrites : WriteDone(i)
    \/ \E fw \in FailForwards : ~loadPending /\ ProxyToPi("pi1", fw)
    \/ \E i \in 1..MaxCalls : ProxySettle(i) /\ OneAtATime
    \/ \E h \in 1..MaxSweeps : ~loadPending /\ NoCheck /\ HealthCheck(h)
    \/ \E h \in 1..MaxSweeps : CheckProbe(h) /\ OneAtATime
    \/ \E s \in 1..MaxSweeps : ~loadPending /\ NoSweep /\ DiscoverPis(s)
    \/ \E s \in 1..MaxSweeps : DiscoverProbe(s)

SpecObserve == InitObserve /\ [][NextObserve]_vars

\* Access requests, their approval or rejection by an admin, and logins.
AuthCallers == {caller \in Callers : caller.token = "valid"}

InitAuth == Init /\ net = [ip \in IPs |-> "down"] /\ disk = MissingFile

NextAuth ==
    \/ Tick
    \/ \E body \in AccessBodies : HandleAccessRequest(body)
    \/ HandleAccessStatus("ana@resort.com")
    \/ \E caller \in AuthCallers, t \in 0..MaxTime, role \in {Undefined, "viewer"} :
          HandleApproveRequest(caller, RequestId(t), role)
    \/ \E caller \in AuthCallers : HandleRejectRequest(caller, RequestId(0), Undefined)
    \/ \E email \in LoginEmails, password \in LoginPasswords : HandleLogin(email, password)

SpecAuth == InitAuth /\ [][NextAuth]_vars

\* Status updates of two devices racing each other and their writes: the
\* queue of writes may fill.
RaceIds == {"pi1", DerivedId(IP3)}
RaceUpdates == {<<"pi1", "online">>, <<DerivedId(IP3), "offline">>}

InitRace == Init /\ net = [ip \in IPs |-> "down"] /\ disk = SeedSnapshot

NextRace ==
    \/ Tick
    \/ LoadPIs
    \/ \E i \in 1..MaxWrites : WriteDone(i)
    \/ \E piData \in FwdRegister : RegisterPI(piData)
    \/ \E u \in RaceUpdates : SetPIStatus(u[1], u[2])

SpecRace == InitRace /\ [][NextRace]_vars

\* ================================================================= claims
\* The settled axios promise of the i-th call in flight.
Settled(i) == Axios(net[calls[i].ip], calls[i].ip, calls[i].port, calls[i].endpoint)

\* The i-th call in flight belongs to a direct caller of proxyToPi and
\* settles in this step.
DirectSettle(i) == ProxySettle(i) /\ calls[i].owner = 0

\* The device at ip answers a forwarded call with a 2xx response.
Answers(ip) == net[ip] \in {"ok", "nosuccess"}

\* C1: proxyToPi for an id that is no key of the store ends in the
\* not-found failure (it throws "Invalid Pi ID"), issues no outbound call and
\* leaves every record of the store as it was.
C1_UnknownIdNoCall ==
    [][\A piId \in AskedIds, fw \in Forwards :
         (~MapHas(pis, piId) /\ ProxyToPi(piId, fw)) =>
             /\ ret'.kind = "throw"
             /\ ret'.message = InvalidPiId(piId)
             /\ calls' = calls
             /\ pis' = pis
             /\ writes' = writes]_vars

\* C1 witness: proxyToPi threw for an id the non-empty store does not hold.
C1_Witness ==
    /\ ret.kind = "throw"
    /\ ret.op = "proxyToPi"
    /\ ~MapHas(pis, ret.piId)
    /\ Len(pis) > 0
    /\ calls = <<>>

\* C2: forwarding to a device of the store whose device answers the call
\* returns success = true with the device's payload as data, and the device
\* is online in the store afterwards.
C2_AnsweringDeviceForwards ==
    [][\A i \in 1..MaxCalls :
         (DirectSettle(i) /\ MapHas(pis, calls[i].piId) /\ Answers(calls[i].ip)) =>
             /\ ret'.success = TRUE
             /\ ret'.data = DeviceResponse(net[calls[i].ip], calls[i].ip,
                                           calls[i].endpoint).data
             /\ MapGet(pis', calls[i].piId).status = "online"]_vars

\* C3: a forward whose outbound call fails at the transport (timeout,
\* connection error) returns, and does not throw, a result with success =
\* false and the error cause; the device, if the store holds it, is offline
\* afterwards; the outcome differs from the not-found outcome, which throws.
C3_TransportFailureResult ==
    [][\A i \in 1..MaxCalls :
         (DirectSettle(i) /\ ~Settled(i).ok /\ ~Settled(i).hasResponse) =>
             /\ ret'.kind = "return"
             /\ ret'.success = FALSE
             /\ ret'.error = Settled(i).message
             /\ ret'.piId = calls[i].piId
             /\ MapHas(pis, calls[i].piId) =>
                    /\ MapHas(pis', calls[i].piId)
                    /\ MapGet(pis', calls[i].piId).status = "offline"]_vars

\* C3 witness: a forward to a device that is down returned its failure and
\* the device is offline in the store.
C3_Witness ==
    /\ ret.kind = "return"
    /\ ret.op = "proxyToPi"
    /\ ~ret.success
    /\ ret.details = "Connection failed"
    /\ MapHas(pis, ret.piId)
    /\ MapGet(pis, ret.piId).status = "offline"
    /\ MapGet(pis, ret.piId).port = PI_API_PORT
    /\ net[ret.piIp] = "down"

\* The i-th call in flight reaches a device that answers with status 500.
AnsweredWithError(i) ==
    /\ DirectSettle(i)
    /\ calls[i].port = PI_API_PORT
    /\ net[calls[i].ip] = "http500"

\* C4 as claimed: a device's answer with an HTTP error status counts as a
\* successful forward: success = true with the device's body as data, and
\* the device is online afterwards.
C4_HttpErrorIsSuccess ==
    [][\A i \in 1..MaxCalls :
         AnsweredWithError(i) =>
             /\ ret'.success = TRUE
             /\ ret'.data = DeviceResponse("http500", calls[i].ip, calls[i].endpoint).data
             /\ MapHas(pis, calls[i].piId) =>
                    MapGet(pis', calls[i].piId).status = "online"]_vars

\* C4 as amended: a device's answer with an HTTP error status counts as a
\* failed forward: success = false, the error names the status, the device's
\* body is passed on as details, and the device is offline afterwards.
C4_HttpErrorIsFailure ==
    [][\A i \in 1..MaxCalls :
         AnsweredWithError(i) =>
             /\ ret'.kind = "return"
             /\ ret'.success = FALSE
             /\ ret'.error = "Request failed with status code 500"
             /\ ret'.details = DeviceResponse("http500", calls[i].ip,
                                              calls[i].endpoint).data
             /\ MapHas(pis, calls[i].piId) =>
                    MapGet(pis', calls[i].piId).status = "offline"]_vars

\* C4 witness: a forward came back with a device's error body as details
\* and the device is offline in the store.
C4_Witness ==
    /\ ret.kind = "return"
    /\ ret.op = "proxyToPi"
    /\ ~ret.success
    /\ ret.details = DeviceResponse("http500", ret.piIp, "/api/status").data
    /\ MapHas(pis, ret.piId)
    /\ MapGet(pis, ret.piId).status = "offline"

\* The bulk status handler sends its response in this step.
BulkResponds ==
    \/ \E caller \in Callers : AllStatus(caller) /\ bulk'.pc = "idle"
    \/ \E i \in 1..MaxCalls : ProxySettle(i) /\ bulk.pc = "waiting" /\ bulk'.pc = "idle"

\* C5: the bulk status response over a store of N devices holds N results,
\* the k-th result belongs to the k-th device of the store (it carries that
\* device's id), and a result is successful exactly if its device answers.
C5_BulkResultPerDevice ==
    [][BulkResponds =>
         /\ Len(resp'.body.players) = Len(pis')
         /\ \A k \in 1..Len(pis') :
                /\ resp'.body.players[k].piId = pis'[k].id
                /\ resp'.body.players[k].success = Answers(pis'[k].ip)]_vars

\* The documented per-player requests: GET /api/:piId/status and
\* POST /api/:piId/control/play.
PlayerRequest(method, path) ==
    \/ method = "GET" /\ Len(path) = 3 /\ path[1] = "api" /\ path[3] = "status"
    \/ /\ method = "POST" /\ Len(path) = 4
       /\ path[1] = "api" /\ path[3] = "control" /\ path[4] = "play"

\* C6: a per-player request of a caller with a valid token, for a device
\* of the store, is not answered with "Endpoint not found".
C6_PlayerRouteExists ==
    [][\A caller \in Callers, method \in Methods, path \in Paths :
         (/\ Rejected(caller, method, path)
          /\ caller.token = "valid"
          /\ PlayerRequest(method, path)
          /\ MapHas(pis, path[2])) =>
             resp'.body.error # "Endpoint not found"]_vars

\* The candidate a sweep is probing, and the settled promise of its probe.
Probed(s) == potentialIPs[sweeps[s].i]
ProbeResult(s) == Axios(net[Probed(s)], Probed(s), PI_API_PORT, HealthPath)
ProbeSucceeds(s) == ProbeResult(s).ok /\ ProbeResult(s).data.success

\* The number of devices of a store with a given address.
CountIp(m, ip) == Cardinality({k \in 1..Len(m) : m[k].ip = ip})

\* C7: a probe that fails (error status, connection error, timeout) for an
\* address no device of the store has leaves the store as it was.
C7_FailedProbeNoPhantom ==
    [][\A s \in 1..MaxSweeps :
         (DiscoverProbe(s) /\ ~ProbeResult(s).ok /\ ~HasIp(pis, Probed(s))) =>
             pis' = pis]_vars

\* C7 witness: a sweep has returned, the probe of the second candidate has
\* failed, the store holds devices and none of them for that address.
C7_Witness ==
    /\ ret.kind = "return"
    /\ ret.op = "discoverPis"
    /\ net[IP2] = "down"
    /\ ~HasIp(pis, IP2)
    /\ Len(pis) > 0
    /\ sweeps[1].pc = "idle"

\* C8: a successful probe of a candidate address leaves the store with the
\* device of the derived id, online and at that address; it adds one
\* device when the id was new and none when the id was there (so repeated
\* sweeps keep writing the same id); every other device is as before; and
\* an address that had no device, or had the derived-id device alone, has
\* exactly one device afterwards.
C8_SuccessfulProbeUpserts ==
    [][\A s \in 1..MaxSweeps :
         (DiscoverProbe(s) /\ ProbeSucceeds(s)) =>
             LET ip == Probed(s)
                 id == DerivedId(ip)
             IN  /\ MapHas(pis', id)
                 /\ MapGet(pis', id).status = "online"
                 /\ MapGet(pis', id).ip = ip
                 /\ Len(pis') = Len(pis) + (IF MapHas(pis, id) THEN 0 ELSE 1)
                 /\ \A k \in 1..Len(pis) : pis[k].id # id => pis'[k] = pis[k]
                 /\ (~HasIp(pis, ip) \/ (CountIp(pis, ip) = 1 /\ FindByIp(pis, ip).id = id))
                        => CountIp(pis', ip) = 1]_vars

\* C8 witness: the file holds a discovered device as a first sweep saved
\* it, and the store holds the same id, alone at its address, as a later
\* sweep wrote it.
C8_Witness ==
    /\ disk.state = "json"
    /\ MapHas(disk.pis, DerivedId(IP1))
    /\ MapGet(disk.pis, DerivedId(IP1)).version = "1.2"
    /\ MapGet(disk.pis, DerivedId(IP1)).lastSeen = 0
    /\ MapHas(pis, DerivedId(IP1))
    /\ MapGet(pis, DerivedId(IP1)).version = "1.2"
    /\ MapGet(pis, DerivedId(IP1)).lastSeen > 0
    /\ MapGet(pis, DerivedId(IP1)).status = "online"
    /\ CountIp(pis, IP1) = 1

\* C9: a successful probe of an address a device of the store already has
\* (under whatever id) sets that device online, adds no second device for
\* the address, and keeps the device's location and description.
C9_ExistingDeviceRefreshed ==
    [][\A s \in 1..MaxSweeps :
         (DiscoverProbe(s) /\ ProbeSucceeds(s) /\ HasIp(pis, Probed(s))) =>
             LET old == FindByIp(pis, Probed(s))
             IN  /\ MapHas(pis', old.id)
                 /\ MapGet(pis', old.id).status = "online"
                 /\ MapGet(pis', old.id).location = old.location
                 /\ MapGet(pis', old.id).description = old.description
                 /\ CountIp(pis', Probed(s)) = CountIp(pis, Probed(s))]_vars

\* The body of an add-device request carries an address and a name.
Complete(body) == body.ip # NoIp /\ body.name \notin {Undefined, ""}

\* C10: an admin's add-device request with an address and a name adds a
\* pending device with them to the store and is answered with success; one
\* without address or name is answered 400 and leaves the store as it was.
C10_AdminAddsDevice ==
    [][\A caller \in Callers, body \in AddBodies :
         AdminAddPi(caller, body) =>
             IF Complete(body)
             THEN /\ resp'.status = 200
                  /\ \E k \in 1..Len(pis') :
                         /\ pis'[k].ip = body.ip
                         /\ pis'[k].name = body.name
                         /\ pis'[k].status = "pending"
             ELSE resp'.status = 400 /\ pis' = pis]_vars

\* C11: an admin's trigger-discovery request starts a discovery sweep, and
\* an admin's trigger-health-check request is answered with success and
\* starts a health-check sweep over the devices of the store.
C11_AdminTriggersSweeps ==
    [][\A caller \in Callers :
         /\ \A s \in 1..MaxSweeps :
                AdminDiscover(caller, s) =>
                    sweeps'[s].pc = "probe" /\ sweeps'[s].owner = "admin"
         /\ AdminHealthCheck(caller) =>
                /\ resp'.status = 200
                /\ resp'.body.success = TRUE
                /\ Len(pis) > 0 => \E h \in 1..MaxSweeps : checks'[h].pc = "probe"]_vars

\* C12: removePI for an id that is no key of the store yields false, leaves
\* the store as it was, and starts no write of the snapshot.
C12_RemoveAbsentIsNoop ==
    [][\A piId \in AskedIds :
         (~MapHas(pis, piId) /\ RemovePI(piId)) =>
             /\ ret' = [kind |-> "return", op |-> "removePI", piId |-> piId,
                        value |-> FALSE]
             /\ pis' = pis
             /\ writes' = writes
             /\ disk' = disk]_vars

\* C12 witness: removePI has returned false for an id the store, which
\* holds a device, does not hold, and no write is under way.
C12_Witness ==
    /\ ret.kind = "return"
    /\ ret.op = "removePI"
    /\ ret.value = FALSE
    /\ ~MapHas(pis, ret.piId)
    /\ Len(pis) > 0
    /\ writes = <<>>

\* C13: an admin's remove-device request is answered 404 when the store
\* does not hold the id, and with success only when it held the id and the
\* device is removed.
C13_RemoveAbsentIs404 ==
    [][\A caller \in Callers, piId \in AskedIds :
         AdminRemovePi(caller, piId) =>
             IF MapHas(pis, piId)
             THEN resp'.status = 200 /\ ~MapHas(pis', piId)
             ELSE resp'.status = 404 /\ pis' = pis]_vars

\* The fields of a record other than those updatePIStatus writes.
OtherFields == {"id", "ip", "port", "name", "location", "description", "addedAt",
                "version", "storage", "uptime"}

\* C14: updatePIStatus(id, s) at time t for a device of the store leaves
\* that device with status s and lastSeen t, its other fields and every
\* other device as they were; for an id the store does not hold it returns
\* null and changes nothing.
C14_StatusUpdateExact ==
    [][\A piId \in AskedIds, status \in Statuses :
         SetPIStatus(piId, status) =>
             IF MapHas(pis, piId)
             THEN /\ Len(pis') = Len(pis)
                  /\ \A k \in 1..Len(pis) :
                         IF pis[k].id = piId
                         THEN /\ pis'[k].status = status
                              /\ pis'[k].lastSeen = now
                              /\ \A f \in OtherFields : pis'[k][f] = pis[k][f]
                         ELSE pis'[k] = pis[k]
             ELSE /\ pis' = pis
                  /\ writes' = writes
                  /\ ret'.value = "null"]_vars

\* C14 witness: updatePIStatus has returned the device it set online at
\* time 1, in a store that holds a second device, which is still pending.
C14_Witness ==
    /\ ret.kind = "return"
    /\ ret.op = "updatePIStatus"
    /\ ret.value = "pi"
    /\ Len(pis) = 2
    /\ MapHas(pis, "pi1")
    /\ MapGet(pis, "pi1").status = "online"
    /\ MapGet(pis, "pi1").lastSeen = 1
    /\ MapGet(pis, "pi1").addedAt = 0
    /\ MapHas(pis, DerivedId(IP3))
    /\ MapGet(pis, DerivedId(IP3)).status = "pending"

\* C15: when a write of the snapshot fails, the store keeps the mutation,
\* the operation that awaits the write does not reject, and no promise
\* rejects unhandled.
C15_WriteFailureContained ==
    [][\A i \in 1..MaxWrites :
         WriteFail(i) =>
             /\ pis' = pis
             /\ unhandled' = FALSE
             /\ ret'.kind # "reject"]_vars

\* C16: loadPIs with a missing or malformed file raises nothing and leaves
\* the store empty; with a well-formed snapshot it leaves the store with
\* exactly the devices of the snapshot, each as the snapshot has it.
C16_LoadNeverFails ==
    [][LoadPIs =>
         /\ unhandled' = FALSE
         /\ ret' = ret
         /\ IF disk.state \in {"missing", "malformed"}
            THEN pis' = <<>>
            ELSE /\ Keys(pis') = Keys(disk.pis)
                 /\ Len(pis') = Len(disk.pis)
                 /\ \A id \in Keys(disk.pis) : MapGet(pis', id) = MapGet(disk.pis, id)]_vars

\* C16 witness: the load has settled on a malformed file and the store is
\* empty.
C16_Witness ==
    /\ ~loadPending
    /\ disk = MalformedFile
    /\ pis = <<>>
    /\ ~unhandled

\* The file holds what savePIs writes for the store as it is.
Saved == disk.state = "json" /\ disk.pis = ObjectFromEntries(pis)

\* What loadPIs makes of the file savePIs writes for the store m at time t.
SavedAndLoaded(m, t) == ParseFile(Stringify(m, t))

IsAdmin(caller) == caller.token = "valid" /\ caller.role = "admin"

\* What the routing does with the caller's request for an admin operation.
Gate(caller, rq) == Dispatch(caller, rq.method, rq.path, 1)

\* A step that changes no device and starts no sweep and no write.
StoreUntouched ==
    pis' = pis /\ sweeps' = sweeps /\ checks' = checks /\ writes' = writes

\* C18: for every admin operation, the request of a caller whose role is
\* not admin is turned away with 401 or 403 and the request of an admin
\* reaches the handler; and a request that is turned away changes no
\* device and starts no sweep and no write.
C18_AdminGate ==
    /\ \A caller \in Callers, rq \in AdminRequests :
           IF IsAdmin(caller)
           THEN Gate(caller, rq).kind = "handler"
           ELSE Gate(caller, rq).kind = "response" /\ Gate(caller, rq).status \in {401, 403}
    /\ [][StoreUntouched \/
           \A caller \in Callers, rq \in AdminRequests :
               ~Rejected(caller, rq.method, rq.path)]_vars

\* C18 witness: a caller was told that admin access is required, while
\* the store holds a device and no sweep and no write is under way.
C18_Witness ==
    /\ resp = ErrorResponse(403, "Admin access required")
    /\ Len(pis) > 0
    /\ \A s \in 1..MaxSweeps : sweeps[s].pc = "idle"
    /\ writes = <<>>

\* C19: the list-devices response holds one entry per device of the store,
\* the k-th entry with the id, name, location, status and lastSeen of the
\* k-th device, and no entry holds the device's address.
C19_PlayersListDevices ==
    [][\A caller \in Callers :
         Players(caller) =>
             /\ Len(resp'.body.players) = Len(pis)
             /\ \A k \in 1..Len(pis) :
                    /\ resp'.body.players[k].id = pis[k].id
                    /\ resp'.body.players[k].name = pis[k].name
                    /\ resp'.body.players[k].location = pis[k].location
                    /\ resp'.body.players[k].status = pis[k].status
                    /\ resp'.body.players[k].lastSeen = pis[k].lastSeen
                    /\ "ip" \notin DOMAIN resp'.body.players[k]]_vars

\* C20: stopAutoDiscovery returns whatever sweeps are under way, and when
\* it has returned no timer is armed any more, so that no timer starts a
\* discovery or health-check sweep afterwards, however often
\* startAutoDiscovery and stopAutoDiscovery were called before.
C20_StopDisarmsTimers ==
    [][StopAutoDiscovery =>
         /\ ret'.kind = "return"
         /\ timers' = {}
         /\ sweeps' = sweeps
         /\ checks' = checks]_vars

\* An updatePIStatus(piId, ...) that has written the record and awaits its
\* write.
Updating(piId) ==
    \E i \in 1..Len(writes) :
        writes[i].waiter.kind = "updatePIStatus" /\ writes[i].waiter.id = piId

\* C21: while updatePIStatus of one device awaits its write, the steps of an
\* updatePIStatus of another device leave the first device's record as it
\* is: the synchronous part writes the status and lastSeen of its own
\* device only, and the completion of either write changes no record.
C21_ConcurrentUpdatesApart ==
    [][/\ \A a \in RaceIds, b \in RaceIds, status \in Statuses :
            (a # b /\ Updating(a) /\ MapHas(pis, b) /\ SetPIStatus(b, status)) =>
                /\ MapGet(pis', b).status = status
                /\ MapGet(pis', b).lastSeen = now
                /\ MapHas(pis', a) = MapHas(pis, a)
                /\ MapHas(pis, a) => MapGet(pis', a) = MapGet(pis, a)
       /\ \A i \in 1..Len(writes) :
            (writes[i].waiter.kind = "updatePIStatus" /\ WriteDone(i)) => pis' = pis]_vars

\* C21 witness: the updates of pi1 (online, at time 0) and of the device at
\* IP3 (offline, at time 1) both await their writes, and each record holds
\* what its own update wrote.
C21_Witness ==
    /\ Len(writes) = 2
    /\ Updating("pi1")
    /\ Updating(DerivedId(IP3))
    /\ MapHas(pis, "pi1")
    /\ MapGet(pis, "pi1").status = "online"
    /\ MapGet(pis, "pi1").lastSeen = 0
    /\ MapHas(pis, DerivedId(IP3))
    /\ MapGet(pis, DerivedId(IP3)).status = "offline"
    /\ MapGet(pis, DerivedId(IP3)).lastSeen = 1

\* An access request of that email has been approved.
Approved(email) ==
    \E k \in 1..Len(accessRequests) :
        accessRequests[k].email = email /\ accessRequests[k].status = "approved"

\* C22: once an admin has approved the access request of an email, a login
\* with that email is answered 200 with a token that carries the role the
\* approval granted.
C22_ApprovedUserLogsIn ==
    [][\A email \in LoginEmails, password \in LoginPasswords \ {""} :
         (Approved(email) /\ HandleLogin(email, password)) =>
             /\ resp'.status = 200
             /\ \E k \in 1..Len(users) :
                    /\ users[k].key = email
                    /\ resp'.body.token.role = users[k].role]_vars

\* healthCheck, called directly, returns its results in this step.
CheckReturned ==
    /\ \E h \in 1..MaxSweeps :
           checks[h].pc # "idle" /\ checks[h].owner = "direct" /\ checks'[h] = Idle
    /\ ret'.kind = "return"
    /\ ret'.op = "healthCheck"

\* The results of that piId in a list of results.
ResultsOf(results, piId) == {k \in 1..Len(results) : results[k].piId = piId}

\* C23: when healthCheck returns, a device it reports online is reported
\* once and is online in the store, also when writes of the snapshot failed
\* during the check.
C23_WriteFailureKeepsOnline ==
    [][CheckReturned =>
         \A k \in 1..Len(ret'.results) :
             ret'.results[k].status = "online" =>
                 /\ Cardinality(ResultsOf(ret'.results, ret'.results[k].piId)) = 1
                 /\ MapHas(pis', ret'.results[k].piId)
                 /\ MapGet(pis', ret'.results[k].piId).status = "online"]_vars

\* What the probe of a health check gets from the device at ip.
CheckAnswer(ip) == Axios(net[ip], ip, PI_API_PORT, HealthPath)

\* C24: a healthCheck during which nothing else mutates the store returns
\* one result per device of the store, in the store's order, candidate
\* address or not; a result is online with the response's data when the
\* probe of the device's address succeeded and offline with the error's
\* message when it failed, and the device's status in the store is the
\* status of its result.
C24_CheckCoversStore ==
    [][CheckReturned =>
         /\ Len(ret'.results) = Len(pis')
         /\ \A k \in 1..Len(pis') :
                LET result == ret'.results[k]
                IN  /\ result.piId = pis'[k].id
                    /\ result.ip = pis'[k].ip
                    /\ result.status = pis'[k].status
                    /\ IF CheckAnswer(result.ip).ok
                       THEN /\ result.status = "online"
                            /\ result.response = CheckAnswer(result.ip).data
                       ELSE /\ result.status = "offline"
                            /\ result.error = CheckAnswer(result.ip).message]_vars

\* C24 witness: a check has returned an online result for pi1 and an offline
\* one for the registered device at IP3, which is no candidate address, and
\* the store holds these statuses.
C24_Witness ==
    /\ ret.kind = "return"
    /\ ret.op = "healthCheck"
    /\ Len(ret.results) = 2
    /\ ret.results[1].piId = "pi1"
    /\ ret.results[1].status = "online"
    /\ ret.results[2].piId = DerivedId(IP3)
    /\ ret.results[2].status = "offline"
    /\ \A k \in 1..Len(potentialIPs) : potentialIPs[k] # IP3
    /\ Len(pis) = 2
    /\ pis[1].status = "online"
    /\ pis[2].status = "offline"
    /\ NoCheck

\* C25: when the probe of a candidate address fails in discoverPis, every
\* device of the store at that address that was online is offline
\* afterwards with lastSeen the time of the failure, every device at that
\* address that was pending or offline is as it was, and nothing rejects.
C25_FailedProbeSetsOffline ==
    [][\A s \in 1..MaxSweeps :
         (DiscoverProbe(s) /\ ~ProbeResult(s).ok) =>
             /\ Len(pis') = Len(pis)
             /\ \A k \in 1..Len(pis) :
                    pis[k].ip = Probed(s) =>
                        IF pis[k].status = "online"
                        THEN pis'[k].status = "offline" /\ pis'[k].lastSeen = now
                        ELSE pis'[k] = pis[k]
             /\ ret'.kind # "reject"
             /\ unhandled' = unhandled]_vars

\* Nothing is under way: the constructor's load has settled, and no write,
\* forward, bulk request, sweep or check is in progress.
Quiescent ==
    /\ ~loadPending
    /\ writes = <<>>
    /\ calls = <<>>
    /\ bulk = Idle
    /\ \A s \in 1..MaxSweeps : sweeps[s].pc = "idle" /\ checks[s].pc = "idle"

\* C26: whenever nothing is under way, the devices of the file are the
\* devices of the store.
C26_SnapshotFollowsStore == Quiescent => ParseFile(disk) = ObjectFromEntries(pis)

\* C27: at most one write of the file is in progress at any time, and when
\* every write has finished (the constructor's load having settled) the
\* file holds the devices of the store as the latest mutation left them.
C27_SingleWriter ==
    /\ Len(writes) <= 1
    /\ (~loadPending /\ writes = <<>>) => ParseFile(disk) = ObjectFromEntries(pis)

\* The operation op of the store returns to its caller in this step.
Returns(op) == ret' # ret /\ ret'.kind = "return" /\ ret'.op = op

\* The write a caller of kind awaits completes in this step.
WriteCompletes(kind) ==
    \E i \in 1..Len(writes) : writes[i].waiter.kind = kind /\ WriteDone(i)

\* C28: registerPI, a removePI that removed and an updatePIStatus that
\* updated return in the step in which their write completes, and the step
\* that hands a forward's result to its caller or answers an admin removal
\* leaves no write it started in progress.
C28_SuccessAfterWrite ==
    [][/\ Returns("registerPI") => WriteCompletes("registerPI")
       /\ (Returns("removePI") /\ ret'.value = TRUE) => WriteCompletes("removePI")
       /\ (Returns("updatePIStatus") /\ ret'.value = "pi") =>
              WriteCompletes("updatePIStatus")
       /\ \A i \in 1..Len(calls) : DirectSettle(i) => Len(writes') <= Len(writes)
       /\ (resp' # resp /\ resp'.status = 200 /\ "message" \in DOMAIN resp'.body
              /\ resp'.body.message = "PI removed successfully") =>
              Len(writes') <= Len(writes)]_vars

\* The outcome of the probe a sweep is waiting for.
SweepOutcome(s) == IF ProbeResult(s).ok THEN "online" ELSE "offline"

\* A forward or the probe of a health check settles for a device of the
\* store: the device has the outcome as its status and the time of the
\* step as its lastSeen; the completion of a write changes no record.
SettledLastWins ==
    /\ \A i \in 1..Len(calls) :
           (MapHas(pis, calls[i].piId) /\ ProxySettle(i)) =>
               /\ MapGet(pis', calls[i].piId).status = ObservedStatus(Settled(i))
               /\ MapGet(pis', calls[i].piId).lastSeen = now
    /\ \A h \in 1..MaxSweeps :
           (checks[h].pc = "probe" /\ MapHas(pis, checks[h].piId) /\ CheckProbe(h)) =>
               /\ MapGet(pis', checks[h].piId).status = CheckStatus(CheckAnswer(checks[h].ip))
               /\ MapGet(pis', checks[h].piId).lastSeen = now
    /\ \A i \in 1..Len(writes) : WriteDone(i) => pis' = pis

C30_StatusIsOutcome ==
    [][/\ \A i \in 1..Len(calls) :
              (MapHas(pis, calls[i].piId) /\ ProxySettle(i)) =>
                  MapGet(pis', calls[i].piId).status = ObservedStatus(Settled(i))
       /\ \A h \in 1..MaxSweeps :
              (checks[h].pc = "probe" /\ MapHas(pis, checks[h].piId) /\ CheckProbe(h)) =>
                  MapGet(pis', checks[h].piId).status
                      = CheckStatus(CheckAnswer(checks[h].ip))
       /\ \A s \in 1..MaxSweeps :
              (sweeps[s].pc = "probe" /\ DiscoverProbe(s)) =>
                  \A k \in 1..Len(pis) :
                      pis[k].ip = Probed(s) => pis'[k].status = SweepOutcome(s)]_vars

\* C31: a device of the store is in the store after every step that is not
\* removePI of its id.
C31_OnlyRemovalRemoves ==
    [][\A id \in Keys(pis) : MapHas(pis', id) \/ RemovePI(id)]_vars

\* C34: when the load the constructor started settles, every device the
\* store holds by then (all of them added since construction) is still in
\* the store, with the fields it had.
C34_LoadKeepsMutations ==
    [][LoadPIs =>
         \A id \in Keys(pis) : MapHas(pis', id) /\ MapGet(pis', id) = MapGet(pis, id)]_vars

\* When a probe of a sweep or of a check settles, whatever its outcome, the
\* loop goes on to the next candidate or device, or is done with the last
\* one, and nothing rejects.
SweepsGoOn ==
    /\ \A s \in 1..MaxSweeps :
           (sweeps[s].pc = "probe" /\ DiscoverProbe(s)) =>
               /\ IF sweeps[s].i < Len(potentialIPs)
                  THEN sweeps'[s].pc = "probe" /\ sweeps'[s].i = sweeps[s].i + 1
                  ELSE sweeps'[s].pc \in {"save", "idle"}
               /\ ret'.kind # "reject"
               /\ unhandled' = unhandled
    /\ \A h \in 1..MaxSweeps :
           (checks[h].pc = "probe" /\ CheckProbe(h)) =>
               /\ checks'[h].pc \in {"save", "probe", "idle"}
               /\ checks'[h].pc = "probe" => checks'[h].i = checks[h].i + 1
               /\ ret'.kind # "reject"
               /\ unhandled' = unhandled

\* C32: discovery sweeps and health checks go on after every probe whatever
\* its outcome and raise nothing; the bulk status request issues a call to
\* every device of the store and answers 200 with its results.
C32_UnreachableNeverFails ==
    [][/\ SweepsGoOn
       /\ \A caller \in Callers :
              AllStatus(caller) => Len(calls') = Len(calls) + Len(pis)
       /\ BulkResponds => resp'.status = 200]_vars

\* ------------------------------------------------------------ termination
\* Forwards, bulk status requests, discovery sweeps and health checks over
\* loaded and registered devices that answer, answer badly or are down.
\* Every axios call carries a timeout (5000 ms in proxyToPi and healthCheck,
\* 3000 ms in discoverPis), so each call in flight ends and its continuation
\* runs: ProxySettle, DiscoverProbe and CheckProbe are fair.  They are
\* strongly fair because the model holds them back while MaxWrites writes
\* are in flight, which the code does not; the write at the head of the
\* queue completes.  A sweep runs next to the forwards and bulk requests
\* under way when it starts; health checks run next to forwards, bulk
\* requests and registrations, which grow the Map a check iterates.
Forwarding == \E i \in 1..Len(calls) : calls[i].owner = 0

LiveRegister == {piData \in RegisterInputs : piData.id = "0"}

LiveForwards == {fw \in Forwards : fw.endpoint = "/api/status"}

LiveCallers == {caller \in Callers : caller.role = "user"}

LiveQuiet == ~loadPending /\ NoSweep

InitLive ==
    /\ Init
    /\ disk = SeedSnapshot
    /\ net[IP1] = "ok"
    /\ net[IP2] = "down"
    /\ net[IP3] = "down"

NextLive ==
    \/ LoadPIs
    \/ \E i \in 1..MaxWrites : WriteDone(i)
    \/ \E piData \in LiveRegister : LiveQuiet /\ calls = <<>> /\ RegisterPI(piData) /\ OneAtATime
    \/ \E fw \in LiveForwards : LiveQuiet /\ ~Forwarding /\ ProxyToPi("pi1", fw)
    \/ \E i \in 1..MaxCalls : ProxySettle(i) /\ OneAtATime
    \/ \E caller \in LiveCallers : LiveQuiet /\ AllStatus(caller)
    \/ \E s \in 1..MaxSweeps : ~loadPending /\ NoCheck /\ DiscoverPis(s)
    \/ \E s \in 1..MaxSweeps : DiscoverProbe(s) /\ OneAtATime
    \/ \E h \in 1..MaxSweeps : LiveQuiet /\ HealthCheck(h)
    \/ \E h \in 1..MaxSweeps : CheckProbe(h) /\ OneAtATime

FairLive ==
    /\ WF_vars(WriteDone(1))
    /\ \A i \in 1..MaxCalls : SF_vars(ProxySettle(i) /\ OneAtATime)
    /\ \A s \in 1..MaxSweeps : SF_vars(DiscoverProbe(s) /\ OneAtATime)
    /\ \A h \in 1..MaxSweeps : SF_vars(CheckProbe(h) /\ OneAtATime)

SpecLive == InitLive /\ [][NextLive]_vars /\ FairLive

\* C33: given that every outbound call ends, every forward, every bulk
\* status request, every discovery sweep and every health check that has
\* started eventually completes, whatever the devices answer.
C33_OperationsComplete ==
    /\ Forwarding ~> ~Forwarding
    /\ (bulk.pc = "waiting") ~> (bulk.pc = "idle")
    /\ \A s \in 1..MaxSweeps : (sweeps[s].pc # "idle") ~> (sweeps[s].pc = "idle")
    /\ \A h \in 1..MaxSweeps : (checks[h].pc # "idle") ~> (checks[h].pc = "idle")

\* A health check over a store of two devices has returned its two results
\* with nothing left in flight.
C33_Witness ==
    /\ ret.kind = "return"
    /\ ret.op = "healthCheck"
    /\ Len(ret.results) = 2
    /\ calls = <<>>
    /\ writes = <<>>
    /\ \A h \in 1..MaxSweeps : checks[h].pc = "idle"

\* ------------------------------------------------- removal and late results
\* pi1 is removed while a forward to it or a health-check probe of it is in
\* flight.
InitLate ==
    /\ Init
    /\ disk = SeedSnapshot
    /\ net[IP1] \in {"ok", "down"}
    /\ net[IP2] = "down"
    /\ net[IP3] = "down"

NextLate ==
    \/ Tick
    \/ LoadPIs
    \/ \E i \in 1..MaxWrites : WriteDone(i)
    \/ RemovePI("pi1") /\ OneAtATime
    \/ \E fw \in Forwards : ProxyToPi("pi1", fw)
    \/ \E i \in 1..MaxCalls : ProxySettle(i) /\ OneAtATime
    \/ \E h \in 1..MaxSweeps : HealthCheck(h)
    \/ \E h \in 1..MaxSweeps : CheckProbe(h) /\ OneAtATime

SpecLate == InitLate /\ [][NextLate]_vars

\* The call i, or the probe of the check h, settles for a device the store
\* no longer holds.
LateForward(i) == ProxySettle(i) /\ ~MapHas(pis, calls[i].piId)

LateProbe(h) == CheckProbe(h) /\ ~MapHas(pis, checks[h].piId)

\* C35: the completion of a forward or of a health-check probe whose device
\* was removed while it was in flight leaves the store as it is and writes
\* no snapshot: the device is not put back.
C35_LateUpdateChangesNothing ==
    [][/\ \A i \in 1..MaxCalls : LateForward(i) => pis' = pis /\ writes' = writes
       /\ \A h \in 1..MaxSweeps : LateProbe(h) => pis' = pis /\ writes' = writes]_vars

\* A health check that found pi1 online has returned while the write of
\* pi1's removal is still in flight and the file is the one loaded: the
\* probe settled after the removal, and pi1 is not in the store.
C35_Witness ==
    /\ ret.kind = "return"
    /\ ret.op = "healthCheck"
    /\ Len(ret.results) = 1
    /\ ret.results[1].piId = "pi1"
    /\ ret.results[1].status = "online"
    /\ ~MapHas(pis, "pi1")
    /\ disk = SeedSnapshot
    /\ Len(writes) = 1
    /\ writes[1].waiter.kind = "removePI"

\* ------------------------------------------------ addresses and responses
\* Callers that are not admin listing the devices and asking for the bulk
\* status over loaded and registered devices.
NonAdmin == {caller \in Callers : caller.role # "admin"}

InitAddr == Init /\ net[IP2] = "down"

NextAddr ==
    \/ LoadPIs
    \/ \E i \in 1..MaxWrites : WriteDone(i)
    \/ \E piData \in BulkRegister : RegisterPI(piData) /\ OneAtATime
    \/ \E caller \in NonAdmin : Players(caller)
    \/ \E caller \in NonAdmin : AllStatus(caller)
    \/ \E i \in 1..MaxCalls : ProxySettle(i) /\ OneAtATime

SpecAddr == InitAddr /\ [][NextAddr]_vars

\* The store m with the address of its k-th device replaced by f[k].
Readdress(m, f) == [k \in 1..Len(m) |-> [m[k] EXCEPT !.ip = f[k]]]

\* The list-devices response is the one every store that differs from this
\* one only in its addresses gives.
ListIgnoresAddresses ==
    \A f \in [1..Len(pis) -> IPs] :
        resp'.body.players = [k \in 1..Len(pis) |-> PlayerEntry(Readdress(pis, f), k)]

\* The result the bulk status handler gets for the call i is the one it gets
\* for a device stored with any other address that answers the same.
ResultIgnoresAddress(i) ==
    LET c == calls[i]
        r == Axios(net[c.ip], c.ip, c.port, c.endpoint)
    IN  \A ip \in IPs : ProxyResult([c EXCEPT !.ip = ip], r, now) = ProxyResult(c, r, now)

====
